---- MODULE Spec2Model ----
(***************************************************************************)
(* The report-parsing engine of the USCIS officer scoring tool             *)
(* (src/app/lib/scoring/officer-scorer.ts): parseOfficerReport and the     *)
(* extractors it calls, over report texts built from a vocabulary of text  *)
(* fragments.  Texts are strings, characters are strings of length one,    *)
(* and every regular expression of the source is written out item by item  *)
(* and run by a backtracking matcher with JavaScript's priorities (greedy  *)
(* and lazy quantifiers, ordered alternation, lookahead, capture groups).  *)
(***************************************************************************)
EXTENDS Integers, Sequences, FiniteSets, TLC

VARIABLES
    report,          \* the officer report text handed to parseOfficerReport
    visaType,        \* the visaType argument
    pc,              \* the statement of parseOfficerReport that runs next
    overallScore,    \* const overallScore
    overallRating,   \* const overallRating
    probabilities,   \* { approval, rfe, denial }
    criteriaScores,  \* the scores array of extractCriteriaScores
    scoreStep,       \* which return statement of extractScore produced overallScore
    evidenceQuality, \* const evidenceQuality
    rfePredictions,  \* the predictions array of extractRFEPredictions
    weaknesses,      \* const weaknesses
    strengths,       \* const strengths
    recommendations, \* { critical, high, recommended }
    parsed,          \* what the calls of parseOfficerReport made so far have returned
    items,           \* the items array of a call of extractBulletPoints on the report
    lastIndex,       \* rowPattern.lastIndex, as a position of the section counted from 1
    aiPc,            \* the statement of callAIWithFallback and its callees that runs next
    anthropicKey,    \* whether process.env.ANTHROPIC_API_KEY is set
    openaiKey,       \* whether process.env.OPENAI_API_KEY is set
    maxRetries,      \* the maxRetries argument of retryWithBackoff
    initialDelay,    \* the initialDelay argument of retryWithBackoff
    attempt,         \* let attempt
    errors,          \* the errors fn has rejected with so far; lastError is the last
    waits,           \* the delays of the timers awaited so far
    calls,           \* how often each provider's API has been invoked
    thrown,          \* the error retryWithBackoff or callClaude has thrown: claudeError
    aiResult,        \* what callAIWithFallback has returned or thrown
    usage,           \* the usage_tracking row of the fingerprint
    ops,             \* the calls of addPaidCredits and recordScoringUsage made so far
    creditsAdded,    \* the credits of the addPaidCredits calls that have written
    paidCharged,     \* the scorings recordScoringUsage has charged to paid credits
    mode,            \* "route" for POST /api/score, "job" for scorePetition
    runPc,           \* the statement of the route or the step of the job that runs next
    dbConfigured,    \* isSupabaseConfigured()
    useBackground,   \* body.useBackground
    inngestConfigured, \* isInngestConfigured()
    documentType,    \* the documentType of the run
    contentLength,   \* the length of documentContent / fullDocumentContent
    rfeLength,       \* the length of body.rfeOriginalContent, 0 when absent
    promptLength,    \* the length of fullContent, which getScoringPrompt embeds
    session,         \* the stored scoring_sessions row: status and progress
    resultsStored,   \* whether the session has a scoring_results row
    files,           \* the stored uploaded_files rows of the session
    queue,           \* filesToProcess, from the file that is processed next
    processedCount,  \* let processedCount
    failedCount,     \* let failedCount
    downloadAttempt, \* let attempt of downloadWithRetry
    inflight,        \* progress writes issued by onProgress that have not landed
    statusWrites,    \* the status writes sent to the store so far
    stepAttempt,     \* how often the current step of the job has been retried
    response         \* what the route has answered or the job has ended with

\* the variables of callAIWithFallback and its callees
aiVars ==
    <<aiPc, anthropicKey, openaiKey, maxRetries, initialDelay, attempt, errors, waits, calls,
      thrown, aiResult>>

\* the variables of addPaidCredits and recordScoringUsage
creditVars == <<usage, ops, creditsAdded, paidCharged>>

\* the variables of the scoring route and of the scoring job
runVars ==
    <<mode, runPc, dbConfigured, useBackground, inngestConfigured, documentType, contentLength,
      rfeLength, promptLength, session, resultsStored, files, queue, processedCount,
      failedCount, downloadAttempt, inflight, statusWrites, stepAttempt, response>>

\* the variables parseOfficerReport does not assign
otherVars == <<parsed, items, aiVars, creditVars, runVars>>

\* the variables the statements after extractCriteriaScores assign
tailVars ==
    <<evidenceQuality, rfePredictions, lastIndex, weaknesses, strengths, recommendations,
      otherVars>>

\* the arguments, and the variables the statements up to extractCriteriaScores assign
headVars == <<report, visaType, overallScore, scoreStep, overallRating, probabilities,
              criteriaScores>>

\* the variables of parseOfficerReport and of extractBulletPoints
parseVars ==
    <<pc, headVars, evidenceQuality, rfePredictions, lastIndex, weaknesses, strengths,
      recommendations, parsed, items>>

vars == <<report, visaType, pc, overallScore, overallRating, probabilities,
          criteriaScores, scoreStep, tailVars>>

-----------------------------------------------------------------------------
(* Bounds of the model. *)

\* reports of the score specification are made of at most this many fragments
MaxScoreFrags == 3
\* reports of the percentage specification are made of at most this many fragments
MaxProbFrags == 3
\* reports of the criteria specification are made of at most this many fragments
MaxCritFrags == 3
\* reports of the evidence specification are made of at most this many fragments
MaxTierFrags == 3
\* reports of the RFE specification are made of at most this many fragments
MaxRfeFrags == 3
\* reports of the lists specification are made of at most this many fragments
MaxListFrags == 3
\* texts of the bullets specification are made of at most this many lines
MaxBulletFrags == 3
\* parseOfficerReport is called at most this many times in a row
MaxParses == 3
\* retryWithBackoff is called with a maxRetries of at most this
MaxRetries == 3
\* the overall scores of the reports that state no percentage go up to this
MaxDerivedScore == 110
\* each block of recommended actions lists at most this many actions
MaxRecItems == 2
\* at most this many calls of addPaidCredits and recordScoringUsage are made
MaxOps == 3
\* a purchase adds at most this many credits
MaxCredits == 2
\* a session has at most this many uploaded files
MaxFiles == 2

-----------------------------------------------------------------------------
(* Characters and strings.  A text under the matcher is the tuple of its   *)
(* characters; the report is kept, and the results are given, as strings.  *)

LowerLetters == "abcdefghijklmnopqrstuvwxyz"
UpperLetters == "ABCDEFGHIJKLMNOPQRSTUVWXYZ"
DigitChars == "0123456789"

\* a sequence given as a function, as the tuple of its values
Tuple(f) == SubSeq(f, 1, Len(f))

Chars(s) == Tuple([k \in 1..Len(s) |-> SubSeq(s, k, k)])
CharsOf(s) == {SubSeq(s, k, k) : k \in 1..Len(s)}

RECURSIVE Str(_)
Str(t) == IF t = <<>> THEN "" ELSE Head(t) \o Str(Tail(t))

LowerOf == Chars(LowerLetters)
UpperOf == Chars(UpperLetters)
IndexIn(letters, c) == CHOOSE k \in 1..26 : letters[k] = c

\* String.prototype.toLowerCase, for one character and for a text
LowerCh(c) == IF \E k \in 1..26 : UpperOf[k] = c THEN LowerOf[IndexIn(UpperOf, c)] ELSE c
UpperCh(c) == IF \E k \in 1..26 : LowerOf[k] = c THEN UpperOf[IndexIn(LowerOf, c)] ELSE c
toLowerCase(t) == Tuple([k \in 1..Len(t) |-> LowerCh(t[k])])

\* the words the source looks for with String.prototype.includes
Keywords ==
    {"strong approval", "approve", "rfe likely", "denial", "major revision",
     "strong", "adequate", "weak", "insufficient", "Topic", "---"}
WordChars == [w \in Keywords |-> Chars(w)]

\* String.prototype.includes
includes(t, w) ==
    LET sub == WordChars[w]
    IN  \E i \in 1..(Len(t) - Len(sub) + 1) : \A j \in 1..Len(sub) : t[i + j - 1] = sub[j]

DigitValue == [c \in CharsOf(DigitChars) |-> (CHOOSE k \in 1..10 : SubSeq(DigitChars, k, k) = c) - 1]

\* parseInt(t, 10) of a text of decimal digits
RECURSIVE parseInt(_)
parseInt(t) ==
    IF t = <<>> THEN 0
    ELSE 10 * parseInt(SubSeq(t, 1, Len(t) - 1)) + DigitValue[t[Len(t)]]

\* the decimal numeral of n, as the template `${criterion.number}` writes it
RECURSIVE numeral(_)
numeral(n) ==
    IF n < 10 THEN SubSeq(DigitChars, n + 1, n + 1)
    ELSE numeral(n \div 10) \o SubSeq(DigitChars, (n % 10) + 1, (n % 10) + 1)

-----------------------------------------------------------------------------
(* Regular expressions: a sequence of items, run by a backtracking matcher. *)

\* character classes
In(S) == <<"in", S>>
NotIn(S) == <<"notin", S>>
Has(cls, ch) == IF cls[1] = "in" THEN ch \in cls[2] ELSE ch \notin cls[2]

AnyChar == NotIn({})                          \* [^]
Space == {" ", "\t", "\n", "\r", "\f"}        \* \s
Digit == In(CharsOf(DigitChars))              \* \d
Ws == In(Space)

\* items
One(cls) == <<"1", cls>>
Star(cls) == <<"*", cls>>         \* x*
Plus(cls) == <<"+", cls>>         \* x+
Opt(cls) == <<"?", cls>>          \* x?
LazyStar(cls) == <<"*?", cls>>    \* x*?
LazyPlus(cls) == <<"+?", cls>>    \* x+?
Open(n) == <<"(", n>>             \* start of capture group n
Close(n) == <<")", n>>            \* end of capture group n
Alt(alts) == <<"|", alts>>        \* (?:a|b)
Look(alts) == <<"=", alts>>       \* (?=a|b)
NotLook(alts) == <<"!", alts>>    \* (?!a|b)
\* (?:a|b)rest, written as the same expression (?:a rest|b rest)
AltThen(alts, rest) == <<Alt(Tuple([a \in 1..Len(alts) |-> alts[a] \o rest]))>>
EndOfText == <<<<"$", 0>>>>       \* $ (no m flag)

\* a literal, case-sensitive and under the i flag
Lit(s) == Tuple([k \in 1..Len(s) |-> One(In({SubSeq(s, k, k)}))])
LitI(s) ==
    Tuple([k \in 1..Len(s) |-> One(In({LowerCh(SubSeq(s, k, k)), UpperCh(SubSeq(s, k, k))}))])

NoCaps == <<<<0, 0>>, <<0, 0>>, <<0, 0>>>>
Fail == [ok |-> FALSE, s |-> 0, e |-> 0, c |-> NoCaps]

Max(a, b) == IF a >= b THEN a ELSE b
Min(S) == CHOOSE x \in S : \A y \in S : x <= y

\* the number of consecutive characters of cls from position p of t
Run(t, cls, p) ==
    LET stop == {x \in p..Len(t) : ~Has(cls, t[x])}
    IN  IF stop = {} THEN Max(0, Len(t) + 1 - p) ELSE Min(stop) - p

\* whether the items re start with one character of an enumerated class, or with $
StartsWithChar(re) == re # <<>> /\ re[1][1] = "1" /\ re[1][2][1] = "in"
StartsWithEnd(re) == re # <<>> /\ re[1][1] = "$"

\* the characters with which a match of the items i.. of re must start: known when
\* they start with one character of an enumerated class, or with a group or a
\* lookahead of which every alternative starts with one, or with $
StartKnown(re, i) ==
    /\ i <= Len(re)
    /\ \/ StartsWithChar(<<re[i]>>)
       \/ /\ re[i][1] \in {"|", "="}
          /\ \A a \in 1..Len(re[i][2]) :
                StartsWithChar(re[i][2][a]) \/ StartsWithEnd(re[i][2][a])
StartSet(re, i) ==
    IF re[i][1] = "1" THEN re[i][2][2]
    ELSE UNION {re[i][2][a][1][2][2] : a \in {b \in 1..Len(re[i][2]) : StartsWithChar(re[i][2][b])}}
\* whether such a match may also start at the end of the text
StartAtEnd(re, i) ==
    re[i][1] # "1" /\ \E a \in 1..Len(re[i][2]) : StartsWithEnd(re[i][2][a])

\* the positions of lo..hi at which the items i.. of re can match at all
Candidates(t, re, i, lo, hi) ==
    IF StartKnown(re, i)
    THEN LET S == StartSet(re, i)
         IN  {q \in lo..Min({hi, Len(t)}) : t[q] \in S}
             \cup (IF StartAtEnd(re, i) THEN {Len(t) + 1} \cap (lo..hi) ELSE {})
    ELSE lo..hi

RECURSIVE M(_, _, _, _, _), Greedy(_, _, _, _, _), Lazy(_, _, _, _, _), FirstAlt(_, _, _, _, _, _)

\* match the items i.. of re at position p of t: the first success in backtracking order
M(t, re, i, p, caps) ==
    IF i > Len(re) THEN [ok |-> TRUE, s |-> 0, e |-> p, c |-> caps]
    ELSE LET it == re[i]
             k == it[1]
             here == p <= Len(t) /\ Has(it[2], t[p])
             \* the positions at which a quantifier of it[2] may stop, having
             \* consumed at least least characters
             stops(least) == Candidates(t, re, i + 1, p + least, p + Run(t, it[2], p))
         IN  CASE k = "1" -> IF here THEN M(t, re, i + 1, p + 1, caps) ELSE Fail
               [] k = "*" -> Greedy(t, re, i + 1, caps, stops(0))
               [] k = "+" -> Greedy(t, re, i + 1, caps, stops(1))
               [] k = "?" -> Greedy(t, re, i + 1, caps, IF here THEN {p, p + 1} ELSE {p})
               [] k = "*?" -> Lazy(t, re, i + 1, caps, stops(0))
               [] k = "+?" -> Lazy(t, re, i + 1, caps, stops(1))
               [] k = "(" -> M(t, re, i + 1, p, [caps EXCEPT ![it[2]] = <<p, p>>])
               [] k = ")" -> M(t, re, i + 1, p, [caps EXCEPT ![it[2]] = <<caps[it[2]][1], p>>])
               [] k = "|" -> FirstAlt(t, it[2], 1, SubSeq(re, i + 1, Len(re)), p, caps)
               [] k = "=" -> IF \E a \in 1..Len(it[2]) : M(t, it[2][a], 1, p, caps).ok
                             THEN M(t, re, i + 1, p, caps) ELSE Fail
               [] k = "!" -> IF \E a \in 1..Len(it[2]) : M(t, it[2][a], 1, p, caps).ok
                             THEN Fail ELSE M(t, re, i + 1, p, caps)
               [] k = "$" -> IF p = Len(t) + 1 THEN M(t, re, i + 1, p, caps) ELSE Fail

\* a greedy quantifier that may stop at the positions qs: the longest first
Greedy(t, re, i, caps, qs) ==
    IF qs = {} THEN Fail
    ELSE LET q == CHOOSE x \in qs : \A y \in qs : y <= x
             r == M(t, re, i, q, caps)
         IN  IF r.ok THEN r ELSE Greedy(t, re, i, caps, qs \ {q})

\* a lazy quantifier that may stop at the positions qs: the shortest first
Lazy(t, re, i, caps, qs) ==
    IF qs = {} THEN Fail
    ELSE LET q == Min(qs)
             r == M(t, re, i, q, caps)
         IN  IF r.ok THEN r ELSE Lazy(t, re, i, caps, qs \ {q})

\* the alternatives of a group, in order, each followed by the rest of the pattern
FirstAlt(t, alts, a, rest, p, caps) ==
    IF a > Len(alts) THEN Fail
    ELSE LET r == M(t, IF rest = <<>> THEN alts[a] ELSE alts[a] \o rest, 1, p, caps)
         IN  IF r.ok THEN r ELSE FirstAlt(t, alts, a + 1, rest, p, caps)

\* the leftmost of the start positions ss at which re matches
RECURSIVE SearchFrom(_, _, _)
SearchFrom(t, re, ss) ==
    IF ss = {} THEN Fail
    ELSE LET s == Min(ss)
             r == M(t, re, 1, s, NoCaps)
         IN  IF r.ok THEN [r EXCEPT !.s = s] ELSE SearchFrom(t, re, ss \ {s})

\* String.prototype.match without the g flag: the leftmost match
match(t, re) == SearchFrom(t, re, Candidates(t, re, 1, 1, Len(t) + 1))

\* match[n] and match[0]
Group(t, r, n) == SubSeq(t, r.c[n][1], r.c[n][2] - 1)
Whole(t, r) == SubSeq(t, r.s, r.e - 1)

-----------------------------------------------------------------------------
(* Score and rating (officer-scorer.ts, extractScore and getOverallRating). *)

Colon == {":"}
Pipe == {"|"}
Star2 == {"*"}

\* /\*\*TOTAL\*\*[^|]*\|[^|]*\|[^|]*\|\s*\*?\*?(\d+)\s*\/\s*100/i
totalPattern ==
    LitI("**TOTAL**") \o <<Star(NotIn(Pipe))>> \o Lit("|") \o <<Star(NotIn(Pipe))>>
    \o Lit("|") \o <<Star(NotIn(Pipe))>> \o Lit("|")
    \o <<Star(Ws), Opt(In(Star2)), Opt(In(Star2)), Open(1), Plus(Digit), Close(1), Star(Ws)>>
    \o Lit("/") \o <<Star(Ws)>> \o Lit("100")

\* /overall\s+score[:\s]*(\d+)\s*(?:\/\s*100)?/i
overallScorePattern ==
    LitI("overall") \o <<Plus(Ws)>> \o LitI("score")
    \o <<Star(In(Colon \cup Space)), Open(1), Plus(Digit), Close(1), Star(Ws),
         Alt(<<Lit("/") \o <<Star(Ws)>> \o Lit("100"), <<>>>>)>>

\* /\*\*(\d+)\s*\/\s*100\*\*/
anyScorePattern ==
    Lit("**") \o <<Open(1), Plus(Digit), Close(1), Star(Ws)>> \o Lit("/")
    \o <<Star(Ws)>> \o Lit("100**")

\* keywordScore without toLowerCase: the keywords are looked for as written
keywordScore_caseSensitive(t) ==
    IF includes(t, "strong approval") \/ includes(t, "approve") THEN 75
    ELSE IF includes(t, "rfe likely") THEN 60
    ELSE IF includes(t, "denial") \/ includes(t, "major revision") THEN 40
    ELSE 55

\* the keyword defaults of extractScore (lines 182-193)
keywordScore(t) ==
    LET lower == toLowerCase(t)
    IN  IF includes(lower, "strong approval") \/ includes(lower, "approve") THEN 75
        ELSE IF includes(lower, "rfe likely") THEN 60
        ELSE IF includes(lower, "denial") \/ includes(lower, "major revision") THEN 40
        ELSE 55

\* extractScore taking, of the patterns that match, the one that matches leftmost
extractScore_leftmost(rep) ==
    LET t == Chars(rep)
        ms == <<match(t, totalPattern), match(t, overallScorePattern), match(t, anyScorePattern)>>
        hits == {k \in 1..3 : ms[k].ok}
        first == CHOOSE k \in hits : \A j \in hits : ms[k].s < ms[j].s \/ (ms[k].s = ms[j].s /\ k <= j)
    IN  IF hits = {} THEN [value |-> keywordScore(t), step |-> 4]
        ELSE [value |-> parseInt(Group(t, ms[first], 1)), step |-> first]

\* extractScore: the value returned and the return statement that produced it
extractScore(rep) ==
    LET t == Chars(rep)
        totalMatch == match(t, totalPattern)
        scoreMatch == match(t, overallScorePattern)
        anyScore == match(t, anyScorePattern)
    IN  IF totalMatch.ok THEN [value |-> parseInt(Group(t, totalMatch, 1)), step |-> 1]
        ELSE IF scoreMatch.ok THEN [value |-> parseInt(Group(t, scoreMatch, 1)), step |-> 2]
        ELSE IF anyScore.ok THEN [value |-> parseInt(Group(t, anyScore, 1)), step |-> 3]
        ELSE [value |-> keywordScore(t), step |-> 4]

\* getOverallRating with the first threshold exclusive
getOverallRating_exclusive(score) ==
    IF score > 70 THEN "Approve"
    ELSE IF score >= 50 THEN "RFE Likely"
    ELSE "Denial Risk"

getOverallRating(score) ==
    IF score >= 70 THEN "Approve"
    ELSE IF score >= 50 THEN "RFE Likely"
    ELSE "Denial Risk"

-----------------------------------------------------------------------------
(* Probabilities (officer-scorer.ts, extractProbabilities). *)

\* /<label>[:\s]*(\d+)\s*%/i for the labels "approval\s+probability",
\* "rfe\s+probability" and "denial\s+risk"
percentPattern(word1, word2) ==
    LitI(word1) \o <<Plus(Ws)>> \o LitI(word2)
    \o <<Star(In(Colon \cup Space)), Open(1), Plus(Digit), Close(1), Star(Ws)>> \o Lit("%")

approvalPattern == percentPattern("approval", "probability")
rfePattern == percentPattern("rfe", "probability")
denialPattern == percentPattern("denial", "risk")

calculateApprovalProb(score) ==
    IF score >= 85 THEN 85
    ELSE IF score >= 70 THEN 65
    ELSE IF score >= 55 THEN 40
    ELSE IF score >= 40 THEN 20
    ELSE 10

\* calculateRFEProb with one value for every band
calculateRFEProb_flat(score) == 40

calculateRFEProb(score) ==
    IF score >= 85 THEN 10
    ELSE IF score >= 70 THEN 25
    ELSE IF score >= 55 THEN 45
    ELSE IF score >= 40 THEN 50
    ELSE 40

\* extractProbabilities taking the complement of the values derived from the score,
\* not of the values it reports
extractProbabilities_derivedComplement(rep, score) ==
    LET t == Chars(rep)
        approvalMatch == match(t, approvalPattern)
        rfeMatch == match(t, rfePattern)
        denialMatch == match(t, denialPattern)
        approval == IF approvalMatch.ok THEN parseInt(Group(t, approvalMatch, 1))
                    ELSE calculateApprovalProb(score)
        rfe == IF rfeMatch.ok THEN parseInt(Group(t, rfeMatch, 1))
               ELSE calculateRFEProb(score)
        denial == IF denialMatch.ok THEN parseInt(Group(t, denialMatch, 1))
                  ELSE 100 - calculateApprovalProb(score) - calculateRFEProb(score)
    IN  [approval |-> approval, rfe |-> rfe, denial |-> Max(0, denial)]

extractProbabilities(rep, score) ==
    LET t == Chars(rep)
        approvalMatch == match(t, approvalPattern)
        rfeMatch == match(t, rfePattern)
        denialMatch == match(t, denialPattern)
        approval == IF approvalMatch.ok THEN parseInt(Group(t, approvalMatch, 1))
                    ELSE calculateApprovalProb(score)
        rfe == IF rfeMatch.ok THEN parseInt(Group(t, rfeMatch, 1))
               ELSE calculateRFEProb(score)
        denial == IF denialMatch.ok THEN parseInt(Group(t, denialMatch, 1))
                  ELSE 100 - approval - rfe
    IN  [approval |-> approval, rfe |-> rfe, denial |-> Max(0, denial)]

-----------------------------------------------------------------------------
(* Bullet points (officer-scorer.ts, extractBulletPoints). *)

\* stands for the bullet U+2022, which a string of this module cannot hold
BulletDot == "~"

\* String.prototype.split('\n')
RECURSIVE SplitFrom(_, _)
SplitFrom(t, from) ==
    LET breaks == {p \in from..Len(t) : t[p] = "\n"}
    IN  IF breaks = {} THEN <<SubSeq(t, from, Len(t))>>
        ELSE <<SubSeq(t, from, Min(breaks) - 1)>> \o SplitFrom(t, Min(breaks) + 1)

splitLines(t) == SplitFrom(t, 1)

\* String.prototype.trim
RECURSIVE trimStart(_), trimEnd(_)
trimStart(t) == IF t # <<>> /\ Head(t) \in Space THEN trimStart(Tail(t)) ELSE t
trimEnd(t) ==
    IF t # <<>> /\ t[Len(t)] \in Space THEN trimEnd(SubSeq(t, 1, Len(t) - 1)) ELSE t
trim(t) == trimEnd(trimStart(t))

BulletMarks == {"-", "*", BulletDot}
MarkerChars == In(BulletMarks \cup CharsOf(DigitChars) \cup {"."})

\* the test of a line with /^\d+/ in the place of /^\d+\./
isBulletLine_anyNumeral(trimmed) ==
    \/ trimmed # <<>> /\ Head(trimmed) \in BulletMarks
    \/ Run(trimmed, Digit, 1) >= 1

\* /^[-*•]/.test(trimmed) || /^\d+\./.test(trimmed)
isBulletLine(trimmed) ==
    \/ trimmed # <<>> /\ Head(trimmed) \in BulletMarks
    \/ LET n == Run(trimmed, Digit, 1)
       IN  n >= 1 /\ n < Len(trimmed) /\ trimmed[n + 1] = "."

\* trimmed.replace(/^[-*•\d.]+\s*/, '').trim()
bulletContent(trimmed) ==
    LET n == Run(trimmed, MarkerChars, 1)
        w == Run(trimmed, Ws, n + 1)
    IN  IF n = 0 THEN trim(trimmed) ELSE trim(SubSeq(trimmed, n + w + 1, Len(trimmed)))

RECURSIVE bulletItems(_, _)
bulletItems(lines, k) ==
    IF k > Len(lines) THEN <<>>
    ELSE LET trimmed == trim(lines[k])
             content == bulletContent(trimmed)
         IN  (IF isBulletLine(trimmed) /\ content # <<>> /\ Len(content) > 5
              THEN <<Str(content)>> ELSE <<>>) \o bulletItems(lines, k + 1)

\* the items of a text, as strings
extractBulletPoints(t) == bulletItems(splitLines(t), 1)

-----------------------------------------------------------------------------
(* Criteria (types VISA_CRITERIA; officer-scorer.ts, extractCriteriaScores). *)

VisaTypes == {"P-1A", "O-1A", "O-1B", "EB-1A"}

Criterion(n, l, nm) == [number |-> n, letter |-> l, name |-> nm]

O1A_CRITERIA == <<
    Criterion(1, "A", "Nationally or internationally recognized prizes or awards"),
    Criterion(2, "B", "Membership in associations requiring outstanding achievements"),
    Criterion(3, "C", "Published material about the beneficiary"),
    Criterion(4, "D", "Participation as a judge of others' work"),
    Criterion(5, "E", "Original contributions of major significance"),
    Criterion(6, "F", "Authorship of scholarly articles"),
    Criterion(7, "G", "Employment in a critical or essential capacity"),
    Criterion(8, "H", "High salary or remuneration")>>

O1B_CRITERIA == <<
    Criterion(1, "A", "Performed as a lead or starring participant"),
    Criterion(2, "B", "Critical reviews or other published material"),
    Criterion(3, "C", "Performed for organizations with distinguished reputation"),
    Criterion(4, "D", "Record of major commercial or critically acclaimed successes"),
    Criterion(5, "E", "Received significant recognition from organizations, critics, or experts"),
    Criterion(6, "F", "High salary or substantial remuneration")>>

P1A_CRITERIA == <<
    Criterion(1, "A", "International recognition in the sport"),
    Criterion(2, "B", "Significant participation with a major United States sports league"),
    Criterion(3, "C", "Significant participation in international competition"),
    Criterion(4, "D", "Significant participation in a prior season with a major U.S. college"),
    Criterion(5, "E", "Written statement from an official of the sport"),
    Criterion(6, "F", "International ranking")>>

EB1A_CRITERIA == <<
    Criterion(1, "A", "Nationally or internationally recognized prizes or awards"),
    Criterion(2, "B", "Membership in associations requiring outstanding achievements"),
    Criterion(3, "C", "Published material about the beneficiary"),
    Criterion(4, "D", "Participation as a judge of others' work"),
    Criterion(5, "E", "Original contributions of major significance"),
    Criterion(6, "F", "Authorship of scholarly articles"),
    Criterion(7, "G", "Display of work at artistic exhibitions"),
    Criterion(8, "H", "Leading or critical role in distinguished organizations"),
    Criterion(9, "I", "High salary or remuneration"),
    Criterion(10, "J", "Commercial successes in the performing arts")>>

\* VISA_CRITERIA with the O-1A list copied to O-1B
VISA_CRITERIA_copied(v) ==
    CASE v = "O-1A" -> O1A_CRITERIA
      [] v = "O-1B" -> O1A_CRITERIA
      [] v = "P-1A" -> P1A_CRITERIA
      [] v = "EB-1A" -> EB1A_CRITERIA

VISA_CRITERIA(v) ==
    CASE v = "O-1A" -> O1A_CRITERIA
      [] v = "O-1B" -> O1B_CRITERIA
      [] v = "P-1A" -> P1A_CRITERIA
      [] v = "EB-1A" -> EB1A_CRITERIA

\* `criterion\s*${criterion.number}[^]*?`, the head of the three patterns
CriterionNumbers == 1..10

criterionHead(n) ==
    LitI("criterion") \o <<Star(Ws)>> \o Lit(numeral(n)) \o <<LazyStar(AnyChar)>>

\* `criterion\s*N[^]*?(?:my\s+rating|rating)[:\s]*([^\n]+)`, flag i
criterionPatterns == Tuple([n \in CriterionNumbers |->
    criterionHead(n)
    \o AltThen(<<LitI("my") \o <<Plus(Ws)>> \o LitI("rating"), LitI("rating")>>,
               <<Star(In(Colon \cup Space)), Open(1), Plus(NotIn({"\n"})), Close(1)>>)])

\* `criterion\s*N[^]*?(?:evidence\s+score|score)[:\s]*(\d+)`, flag i
scorePatterns == Tuple([n \in CriterionNumbers |->
    criterionHead(n)
    \o AltThen(<<LitI("evidence") \o <<Plus(Ws)>> \o LitI("score"), LitI("score")>>,
               <<Star(In(Colon \cup Space)), Open(1), Plus(Digit), Close(1)>>)])

\* `criterion\s*N[^]*?(?:my\s+concerns|concerns)[:\s]*([^#]+?)(?=\n\n|\*\*|$)`, flag i
concernsPatterns == Tuple([n \in CriterionNumbers |->
    criterionHead(n)
    \o AltThen(<<LitI("my") \o <<Plus(Ws)>> \o LitI("concerns"), LitI("concerns")>>,
               <<Star(In(Colon \cup Space)), Open(1), LazyPlus(NotIn({"#"})), Close(1),
                 Look(<<Lit("\n\n"), Lit("**"), EndOfText>>)>>)])

parseRating(text) ==
    LET lower == toLowerCase(text)
    IN  IF includes(lower, "strong") THEN "Strong"
        ELSE IF includes(lower, "adequate") THEN "Adequate"
        ELSE IF includes(lower, "weak") THEN "Weak"
        ELSE IF includes(lower, "insufficient") THEN "Insufficient"
        ELSE "Not Claimed"

ratingToScore(rating) ==
    CASE rating = "Strong" -> 85
      [] rating = "Adequate" -> 70
      [] rating = "Weak" -> 50
      [] rating = "Insufficient" -> 30
      [] rating = "Not Claimed" -> 0

scoreToQuality(score) ==
    IF score >= 80 THEN "Excellent"
    ELSE IF score >= 65 THEN "Good"
    ELSE IF score >= 45 THEN "Fair"
    ELSE "Poor"

\* the body of the loop of extractCriteriaScores: the record pushed for one criterion
criterionScore(rep, criterion) ==
    LET t == Chars(rep)
        m == match(t, criterionPatterns[criterion.number])
        scoreMatch == match(t, scorePatterns[criterion.number])
        rating == IF m.ok THEN parseRating(Group(t, m, 1)) ELSE "Not Claimed"
        score == IF scoreMatch.ok THEN parseInt(Group(t, scoreMatch, 1))
                 ELSE ratingToScore(rating)
        concernsMatch == match(t, concernsPatterns[criterion.number])
        concerns == IF concernsMatch.ok THEN extractBulletPoints(Group(t, concernsMatch, 1))
                    ELSE <<>>
    IN  [criterionNumber |-> criterion.number,
         criterionName |-> criterion.name,
         rating |-> rating,
         score |-> score,
         evidenceQuality |-> scoreToQuality(score),
         officerConcerns |-> concerns,
         strengths |-> <<>>,
         suggestions |-> <<>>]

-----------------------------------------------------------------------------
(* Evidence quality (officer-scorer.ts, extractEvidenceQuality). *)

TierNumbers == 1..4

\* /tier\s*K[^|]*\|\s*(\d+)/i for K = 1..4
tierPatterns == Tuple([k \in TierNumbers |->
    LitI("tier") \o <<Star(Ws)>> \o Lit(numeral(k)) \o <<Star(NotIn(Pipe))>> \o Lit("|")
    \o <<Star(Ws), Open(1), Plus(Digit), Close(1)>>])

\* tierKMatch ? parseInt(tierKMatch[1], 10) : 0
tierCount(t, k) ==
    LET tierMatch == match(t, tierPatterns[k])
    IN  IF tierMatch.ok THEN parseInt(Group(t, tierMatch, 1)) ELSE 0

\* the assessment, with the tier-3 items counted as tier-2 items
overallAssessment_tier3(counts) ==
    IF counts[1] >= 5 THEN "Strong"
    ELSE IF counts[1] >= 3 \/ counts[2] + counts[3] >= 5 THEN "Moderate"
    ELSE IF counts[1] >= 1 \/ counts[2] + counts[3] >= 3 THEN "Weak"
    ELSE "Insufficient"

\* the if-chain of lines 337-346, of the four counts in the order tier 1..4
overallAssessment(counts) ==
    IF counts[1] >= 5 THEN "Strong"
    ELSE IF counts[1] >= 3 \/ counts[2] >= 5 THEN "Moderate"
    ELSE IF counts[1] >= 1 \/ counts[2] >= 3 THEN "Weak"
    ELSE "Insufficient"

\* . of a RegExp without the s flag: any character but a line terminator
Dot == NotIn({"\n", "\r"})

\* /evidence.*?concerns[:\s]*([^#]+)/i
evidenceConcernsPattern ==
    LitI("evidence") \o <<LazyStar(Dot)>> \o LitI("concerns")
    \o <<Star(In(Colon \cup Space)), Open(1), Plus(NotIn({"#"})), Close(1)>>

extractEvidenceQuality(rep) ==
    LET t == Chars(rep)
        counts == <<tierCount(t, 1), tierCount(t, 2), tierCount(t, 3), tierCount(t, 4)>>
        concernsSection == match(t, evidenceConcernsPattern)
    IN  [tier1Count |-> counts[1],
         tier2Count |-> counts[2],
         tier3Count |-> counts[3],
         tier4Count |-> counts[4],
         overallAssessment |-> overallAssessment(counts),
         concerns |-> IF concernsSection.ok
                      THEN extractBulletPoints(Group(t, concernsSection, 1))
                      ELSE <<>>]

-----------------------------------------------------------------------------
(* RFE predictions (officer-scorer.ts, extractRFEPredictions). *)

\* /rfe\s+predictions?[^]*?(?=##|$)/i
rfeSectionPattern ==
    LitI("rfe") \o <<Plus(Ws)>> \o LitI("prediction")
    \o <<Opt(In({"s", "S"})), LazyStar(AnyChar), Look(<<Lit("##"), EndOfText>>)>>

\* /\|\s*([^|]+)\|\s*(\d+)\s*%?\s*\|\s*([^|]+)\|/g
rowPattern ==
    Lit("|") \o <<Star(Ws), Open(1), Plus(NotIn(Pipe)), Close(1)>> \o Lit("|")
    \o <<Star(Ws), Open(2), Plus(Digit), Close(2), Star(Ws), Opt(In({"%"})), Star(Ws)>>
    \o Lit("|") \o <<Star(Ws), Open(3), Plus(NotIn(Pipe)), Close(3)>> \o Lit("|")

\* RegExp.prototype.exec of a g pattern: the leftmost match at or after its lastIndex
\* (from, a position of t counted from 1); the match's end is the next lastIndex
exec(t, re, from) == SearchFrom(t, re, Candidates(t, re, 1, from, Len(t) + 1))

\* the entry pushed for a match of rowPattern, or nothing when its topic is refused
rowEntry(t, m) ==
    LET topic == trim(Group(t, m, 1))
        probability == parseInt(Group(t, m, 2))
        description == trim(Group(t, m, 3))
    IN  IF topic # <<>> /\ ~includes(topic, "Topic") /\ ~includes(topic, "---")
        THEN <<[topic |-> Str(topic),
                probability |-> probability,
                officerPerspective |-> Str(description),
                suggestedEvidence |-> <<>>]>>
        ELSE <<>>

\* the loop `while ((match = rowPattern.exec(rfeSection[0])) !== null)`, from the
\* lastIndex given: the entries pushed, and the lastIndex the loop leaves (the exec
\* that finds no match sets it to the start)
RECURSIVE rowLoop(_, _)
rowLoop(t, from) ==
    LET m == exec(t, rowPattern, from)
    IN  IF m.ok
        THEN LET rest == rowLoop(t, m.e)
             IN  [pushed |-> rowEntry(t, m) \o rest.pushed, lastIndex |-> rest.lastIndex]
        ELSE [pushed |-> <<>>, lastIndex |-> 1]

\* an array literal [] kept from the call before, as a module-level array would be
freshArray_kept(previous) == previous

\* an array literal [], evaluated where a call before has left the array previous
freshArray(previous) == <<>>

\* the lastIndex of the RegExp object a literal /.../g evaluates to, where the
\* evaluation before has left an object with the lastIndex previous
freshRegExp(previous) == 1

\* extractRFEPredictions, where the call before has left the array and the lastIndex
\* given: the predictions returned, and the lastIndex of rowPattern at the return
extractRFEPredictions(rep, array, index) ==
    LET t == Chars(rep)
        predictions == freshArray(array)
        rfeSection == match(t, rfeSectionPattern)
        loop == rowLoop(Whole(t, rfeSection), freshRegExp(index))
    IN  IF ~rfeSection.ok THEN [predictions |-> predictions, lastIndex |-> index]
        ELSE [predictions |-> predictions \o loop.pushed, lastIndex |-> loop.lastIndex]

-----------------------------------------------------------------------------
(* Lists of items (officer-scorer.ts, extractListItems and extractRecommendations). *)

\* the keywords of the five calls of extractListItems, in the order of the arguments
WeaknessKeywords == <<"RED FLAGS", "CONCERNS", "WEAKNESSES", "MY CONCERNS">>
StrengthKeywords == <<"STRENGTHS", "STRONG", "ACKNOWLEDGE">>
CriticalKeywords == <<"CRITICAL", "MUST DO", "REQUIRED">>
HighKeywords == <<"HIGH PRIORITY", "SHOULD DO", "IMPORTANT">>
RecommendedKeywords == <<"RECOMMENDED", "WOULD HELP", "SUGGESTED">>

\* new RegExp(`${keyword}[^]*?(?=##|\\n\\n\\n|$)`, 'i'), for each keyword
listPatterns(keywords) == Tuple([k \in 1..Len(keywords) |->
    LitI(keywords[k])
    \o <<LazyStar(AnyChar), Look(<<Lit("##"), Lit("\n\n\n"), EndOfText>>)>>])

WeaknessPatterns == listPatterns(WeaknessKeywords)
StrengthPatterns == listPatterns(StrengthKeywords)
CriticalPatterns == listPatterns(CriticalKeywords)
HighPatterns == listPatterns(HighKeywords)
RecommendedPatterns == listPatterns(RecommendedKeywords)

\* the loop of extractListItems from the keyword k on, returning the bullets of the
\* first keyword present, whether it has bullets or not
RECURSIVE listItemsFrom_firstPresent(_, _, _)
listItemsFrom_firstPresent(t, patterns, k) ==
    IF k > Len(patterns) THEN <<>>
    ELSE LET m == match(t, patterns[k])
         IN  IF m.ok THEN extractBulletPoints(Whole(t, m))
             ELSE listItemsFrom_firstPresent(t, patterns, k + 1)

\* the loop `for (const keyword of keywords)` of extractListItems, from the keyword k on
RECURSIVE listItemsFrom(_, _, _)
listItemsFrom(t, patterns, k) ==
    IF k > Len(patterns) THEN <<>>
    ELSE LET m == match(t, patterns[k])
             found == IF m.ok THEN extractBulletPoints(Whole(t, m)) ELSE <<>>
         IN  IF Len(found) > 0 THEN found ELSE listItemsFrom(t, patterns, k + 1)

extractListItems(rep, patterns) == listItemsFrom(Chars(rep), patterns, 1)

extractRecommendations(rep) ==
    [critical |-> extractListItems(rep, CriticalPatterns),
     high |-> extractListItems(rep, HighPatterns),
     recommended |-> extractListItems(rep, RecommendedPatterns)]

-----------------------------------------------------------------------------
(* The AI client (claude-client.ts): retryWithBackoff, callClaude, callOpenAI and  *)
(* callAIWithFallback.                                                             *)

\* maxRetries: number = 3, initialDelay: number = 1000
DefaultMaxRetries == 3
DefaultInitialDelay == 1000

\* an error as the catch clause reads it: err.status (0 when absent) and err.code
Err(status, code) == [status |-> status, code |-> code]

\* the errors a call of the API rejects with
ApiErrors ==
    {Err(400, "none"), Err(401, "none"), Err(403, "none"), Err(404, "none"),
     Err(429, "none"), Err(500, "none"), Err(503, "none"),
     Err(0, "ECONNRESET"), Err(0, "ETIMEDOUT"), Err(0, "ENOTFOUND"), Err(0, "none"),
     Err(401, "ETIMEDOUT")}

\* the errors a call of the API rejects with during a scoring run: one the retry
\* loop retries, one it gives up on at once, and one without status or code
RunErrors == {Err(503, "none"), Err(401, "none"), Err(0, "none")}

\* the errors a call of the API rejects with, in a call on its own or in a run
Rejections == IF mode = "none" THEN ApiErrors ELSE RunErrors

\* the errors the client itself throws
NotConfigured == Err(0, "ANTHROPIC_API_KEY is not configured")
NoTextContent == Err(0, "No text content in Claude response")
NullError == Err(0, "null")
\* nothing thrown yet, nothing returned yet
NoError == Err(0, "nothing thrown")
NoResult == [outcome |-> "pending"]

\* the values callAIWithFallback ends with
Content(content, provider) == [outcome |-> "returned", content |-> content, provider |-> provider]
Failure(error) == [outcome |-> "threw", error |-> error]

\* the error callAIWithFallback throws when both providers have failed, were it the
\* last one caught
rethrown_last(claudeError, openaiError) == openaiError

\* throw claudeError (line 157), whatever openaiError was
rethrown(claudeError, openaiError) == claudeError

\* err.status === 400 || err.status === 401 || err.status === 403
isNonRetryable(err) == err.status \in {400, 401, 403}

\* isRetryable with the client errors 4xx taken for retryable as well
isRetryable_clientErrors(err) ==
    \/ err.status >= 400
    \/ err.code = "ECONNRESET"
    \/ err.code = "ETIMEDOUT"

\* const isRetryable (lines 56-60)
isRetryable(err) ==
    \/ err.status = 429
    \/ (err.status # 0 /\ err.status >= 500)
    \/ err.code = "ECONNRESET"
    \/ err.code = "ETIMEDOUT"

\* Math.pow(2, n)
RECURSIVE Pow2(_)
Pow2(n) == IF n = 0 THEN 1 ELSE 2 * Pow2(n - 1)

\* the delay with the attempts counted from 1
backoffDelay_fromOne(delay, n) == delay * Pow2(n + 1)

\* const delay = initialDelay * Math.pow(2, attempt)
backoffDelay(delay, n) == delay * Pow2(n)

\* lastError: the error caught last, null before any
lastError == IF errors = <<>> THEN NullError ELSE errors[Len(errors)]

-----------------------------------------------------------------------------
(* Report texts: every concatenation of at most max fragments of a vocabulary. *)

RECURSIVE Texts(_, _)
Texts(vocab, max) ==
    IF max = 0 THEN {""}
    ELSE LET shorter == Texts(vocab, max - 1)
         IN  shorter \cup {t \o vocab[k] : t \in shorter, k \in 1..Len(vocab)}

\* fragments about the overall score and the keywords
ScoreVocab == <<
    "**TOTAL** | 100% | | ",
    "**50/100**\n",
    "Overall Score: 70\n",
    "Overall Score: 250\n",
    "I would approve.\n",
    "Strong Approval likelihood\n",
    "RFE Likely\n",
    "Denial expected\n",
    "Major Revision needed\n">>

\* fragments about the three percentages, and about the score they are derived from
ProbVocab == <<
    "Approval Probability: 30%\n",
    "Approval Probability: 250%\n",
    "RFE Probability: 90%\n",
    "RFE Probability: 20%\n",
    "Denial Risk: 5%\n",
    "Overall Score: 88\n",
    "Overall Score: 35\n">>

\* fragments about the criteria
CritVocab == <<
    "Criterion 1\n",
    "Criterion 4\n",
    "Criterion 10\n",
    "My Rating: Weak\n",
    "Rating: Adequate, not STRONG\n",
    "Evidence Score: 90\n",
    "Overall Score: 72\n",
    "My Concerns:\n- No independent evidence\n\n">>

\* fragments about the tiers of evidence
TierVocab == <<
    "Tier 1 | 6\n",
    "Tier 1 | 3 |\n",
    "Tier 1 | 1 |\n",
    "Tier 2 | 5 |\n",
    "Tier 2 | 3 |\n",
    "Tier 3 | 9 |\n",
    "Tier 4 | 7 |\n",
    "Tier 1: major media\n">>

\* fragments about the RFE predictions
RfeVocab == <<
    "## RFE PREDICTIONS\n",
    "## SCORING MATRIX\n",
    "| RFE Topic | Probability | What I'd Request |\n",
    "|---|---|---|\n",
    "| Awards | 70% | More proof |\n",
    "| Press | 40% | Circulation data |\n",
    "| Other Topic | 10% | Nothing |\n",
    "| Salary | 55% |\n">>

\* fragments about the lists: headings, bullets, and the ends of a section
ListVocab == <<
    "RED FLAGS\n",
    "RED FLAGS: none\n\n\n",
    "My Concerns\n",
    "CRITICAL (Must do):\n",
    "REQUIRED\n",
    "- No independent press\n",
    "1. Obtain expert letters\n",
    "- ok\n",
    "## 6. STRENGTHS I ACKNOWLEDGE\n">>

\* lines of a text handed to extractBulletPoints
BulletVocab == <<
    "- ok\n",
    "- Insufficient documentation of criterion 3\n",
    "* Sample\n",
    "~ Media\n",
    "  2. Expert letters  \n",
    "2020 was a good year\n",
    "Plain text - not an item\n",
    "**Strong** press\n">>

\* reports with something for every extractor, and the empty report
ParseReports ==
    {"",
     "Overall Score: 70\nCriterion 1\nMy Rating: Weak\nTier 1 | 6\n",
     "## RFE PREDICTIONS\n| Awards | 70% | More proof |\n| Press | 40% | Circulation data |\n",
     "RED FLAGS\n- No independent press\nSTRENGTHS\n1. Obtain expert letters\n"}

\* the visa types that reach parseOfficerReport from POST /api/score: the session's,
\* or else the request body's visaType as it is, or else O-1A (route.ts, line 202)
RouteVisaTypes == VisaTypes \cup {"H-1B"}

-----------------------------------------------------------------------------
(* parseOfficerReport, statement by statement. *)

Unset == "unset"

\* no call of callAIWithFallback is under way
\* no usage_tracking row for the fingerprint (.single() gives data: null)
NoRow == [present |-> FALSE]

\* no call of addPaidCredits or recordScoringUsage is made
NoCredits ==
    /\ usage = NoRow
    /\ ops = <<>>
    /\ creditsAdded = 0
    /\ paidCharged = 0

\* the row createScoringSession inserts: status 'uploading', progress 0
NewSession == [status |-> "uploading", progress |-> 0]

\* no response yet
NoResponse == [status |-> "none", step |-> "", error |-> [status |-> 0, code |-> "none"]]

\* no scoring run is made
NoRun ==
    /\ mode = "none"
    /\ runPc = "idle"
    /\ dbConfigured = TRUE
    /\ useBackground = FALSE
    /\ inngestConfigured = FALSE
    /\ documentType = "full_petition"
    /\ contentLength = 0
    /\ rfeLength = 0
    /\ promptLength = 0
    /\ session = NewSession
    /\ resultsStored = FALSE
    /\ files = <<>>
    /\ queue = <<>>
    /\ processedCount = 0
    /\ failedCount = 0
    /\ downloadAttempt = 0
    /\ inflight = {}
    /\ statusWrites = {}
    /\ stepAttempt = 0
    /\ response = NoResponse

NoAICall ==
    /\ aiPc = "idle"
    /\ anthropicKey = TRUE
    /\ openaiKey = FALSE
    /\ maxRetries = DefaultMaxRetries
    /\ initialDelay = DefaultInitialDelay
    /\ attempt = 0
    /\ errors = <<>>
    /\ waits = <<>>
    /\ calls = [claude |-> 0, openai |-> 0]
    /\ thrown = NoError
    /\ aiResult = NoResult

InitWith(texts, visas) ==
    /\ report \in texts
    /\ visaType \in visas
    /\ pc = "extractScore"
    /\ overallScore = Unset
    /\ scoreStep = Unset
    /\ overallRating = Unset
    /\ probabilities = Unset
    /\ criteriaScores = <<>>
    /\ evidenceQuality = Unset
    /\ rfePredictions = <<>>
    /\ lastIndex = 1
    /\ weaknesses = Unset
    /\ strengths = Unset
    /\ recommendations = Unset
    /\ parsed = <<>>
    /\ items = Unset
    /\ NoAICall
    /\ NoCredits
    /\ NoRun

\* const overallScore = extractScore(report)
ExtractScore ==
    /\ pc = "extractScore"
    /\ overallScore' = extractScore(report).value
    /\ scoreStep' = extractScore(report).step
    /\ pc' = "getOverallRating"
    /\ UNCHANGED <<report, visaType, overallRating, probabilities, criteriaScores>>
    /\ UNCHANGED tailVars

\* const overallRating = getOverallRating(overallScore)
GetOverallRating ==
    /\ pc = "getOverallRating"
    /\ overallRating' = getOverallRating(overallScore)
    /\ pc' = "extractProbabilities"
    /\ UNCHANGED <<report, visaType, overallScore, scoreStep, probabilities, criteriaScores>>
    /\ UNCHANGED tailVars

\* const { approval, rfe, denial } = extractProbabilities(report, overallScore)
ExtractProbabilities ==
    /\ pc = "extractProbabilities"
    /\ probabilities' = extractProbabilities(report, overallScore)
    /\ pc' = "extractCriteriaScores"
    /\ UNCHANGED <<report, visaType, overallScore, scoreStep, overallRating, criteriaScores>>
    /\ UNCHANGED tailVars

\* one iteration of `for (const criterion of criteria)` in extractCriteriaScores
ExtractCriterion ==
    /\ pc = "extractCriteriaScores"
    /\ visaType \in VisaTypes
    /\ Len(criteriaScores) < Len(VISA_CRITERIA(visaType))
    /\ criteriaScores' =
           Append(criteriaScores,
                  criterionScore(report, VISA_CRITERIA(visaType)[Len(criteriaScores) + 1]))
    /\ UNCHANGED <<report, visaType, pc, overallScore, scoreStep, overallRating, probabilities>>
    /\ UNCHANGED tailVars

\* `return scores`, once the loop has run over every criterion
ReturnCriteriaScores ==
    /\ pc = "extractCriteriaScores"
    /\ visaType \in VisaTypes
    /\ Len(criteriaScores) = Len(VISA_CRITERIA(visaType))
    /\ pc' = "extractEvidenceQuality"
    /\ UNCHANGED <<report, visaType, overallScore, scoreStep, overallRating, probabilities,
                   criteriaScores>>
    /\ UNCHANGED tailVars

\* const evidenceQuality = extractEvidenceQuality(report)
ExtractEvidenceQuality ==
    /\ pc = "extractEvidenceQuality"
    /\ evidenceQuality' = extractEvidenceQuality(report)
    /\ pc' = "extractRFEPredictions"
    /\ UNCHANGED <<headVars, rfePredictions, lastIndex, weaknesses, strengths, recommendations,
                   otherVars>>

\* const rfePredictions = extractRFEPredictions(report)
ExtractRFEPredictions ==
    /\ pc = "extractRFEPredictions"
    /\ rfePredictions' = extractRFEPredictions(report, rfePredictions, lastIndex).predictions
    /\ lastIndex' = extractRFEPredictions(report, rfePredictions, lastIndex).lastIndex
    /\ pc' = "extractWeaknesses"
    /\ UNCHANGED <<headVars, evidenceQuality, weaknesses, strengths, recommendations, otherVars>>

\* const weaknesses = extractListItems(report, 'RED FLAGS', 'CONCERNS', 'WEAKNESSES', 'MY CONCERNS')
ExtractWeaknesses ==
    /\ pc = "extractWeaknesses"
    /\ weaknesses' = extractListItems(report, WeaknessPatterns)
    /\ pc' = "extractStrengths"
    /\ UNCHANGED <<headVars, evidenceQuality, rfePredictions, lastIndex, strengths,
                   recommendations, otherVars>>

\* const strengths = extractListItems(report, 'STRENGTHS', 'STRONG', 'ACKNOWLEDGE')
ExtractStrengths ==
    /\ pc = "extractStrengths"
    /\ strengths' = extractListItems(report, StrengthPatterns)
    /\ pc' = "extractRecommendations"
    /\ UNCHANGED <<headVars, evidenceQuality, rfePredictions, lastIndex, weaknesses,
                   recommendations, otherVars>>

\* const recommendations = extractRecommendations(report)
ExtractRecommendations ==
    /\ pc = "extractRecommendations"
    /\ recommendations' = extractRecommendations(report)
    /\ pc' = "return"
    /\ UNCHANGED <<headVars, evidenceQuality, rfePredictions, lastIndex, weaknesses, strengths,
                   otherVars>>

\* the object parseOfficerReport returns (lines 145-157)
returned ==
    [overallScore |-> overallScore,
     overallRating |-> overallRating,
     approvalProbability |-> probabilities.approval,
     rfeProbability |-> probabilities.rfe,
     denialRisk |-> probabilities.denial,
     criteriaScores |-> criteriaScores,
     evidenceQuality |-> evidenceQuality,
     rfePredictions |-> rfePredictions,
     weaknesses |-> weaknesses,
     strengths |-> strengths,
     recommendations |-> recommendations]

\* return { overallScore, ..., recommendations }
Return ==
    /\ pc = "return"
    /\ parsed' = Append(parsed, [report |-> report, visaType |-> visaType,
                                 outcome |-> "returned", value |-> returned])
    /\ pc' = "returned"
    /\ UNCHANGED <<headVars, evidenceQuality, rfePredictions, lastIndex, weaknesses, strengths,
                   recommendations, items, aiVars, creditVars,
                   runVars>>

\* `for (const criterion of criteria)` when VISA_CRITERIA has no entry for visaType:
\* criteria is undefined, and the loop raises a TypeError that nothing catches
ThrowNotIterable ==
    /\ pc = "extractCriteriaScores"
    /\ visaType \notin VisaTypes
    /\ parsed' = Append(parsed, [report |-> report, visaType |-> visaType,
                                 outcome |-> "TypeError", value |-> <<>>])
    /\ pc' = "threw"
    /\ UNCHANGED <<headVars, evidenceQuality, rfePredictions, lastIndex, weaknesses, strengths,
                   recommendations, items, aiVars, creditVars,
                   runVars>>

\* another call of parseOfficerReport, with any report, once the call before is over:
\* the scores array of its extractCriteriaScores is created (line 246)
ParseAgain ==
    /\ pc \in {"returned", "threw"}
    /\ Len(parsed) < MaxParses
    /\ report' \in ParseReports
    /\ criteriaScores' = freshArray(criteriaScores)
    /\ pc' = "extractScore"
    /\ UNCHANGED <<visaType, overallScore, scoreStep, overallRating, probabilities, tailVars>>

Next ==
    \/ ExtractScore
    \/ GetOverallRating
    \/ ExtractProbabilities
    \/ ExtractCriterion
    \/ ReturnCriteriaScores

\* the statements up to extractProbabilities
NextScore ==
    \/ ExtractScore
    \/ GetOverallRating
    \/ ExtractProbabilities

\* reports about the criteria, for every visa type: the whole of parseOfficerReport
Init == InitWith(Texts(CritVocab, MaxCritFrags), VisaTypes)
Spec == Init /\ [][Next]_vars

\* reports about the overall score and the keywords
InitScore == InitWith(Texts(ScoreVocab, MaxScoreFrags), {"O-1A"})
SpecScore == InitScore /\ [][NextScore]_vars

\* reports about the percentages
InitProb == InitWith(Texts(ProbVocab, MaxProbFrags), {"O-1A"})
SpecProb == InitProb /\ [][NextScore]_vars

\* the statements up to extractEvidenceQuality
NextEvidence ==
    \/ Next
    \/ ExtractEvidenceQuality

\* reports about the tiers of evidence
InitEvidence == InitWith(Texts(TierVocab, MaxTierFrags), {"O-1B"})
SpecEvidence == InitEvidence /\ [][NextEvidence]_vars

\* the statements up to extractRFEPredictions
NextRfe ==
    \/ NextEvidence
    \/ ExtractRFEPredictions

\* reports about the RFE predictions
InitRfe == InitWith(Texts(RfeVocab, MaxRfeFrags), {"O-1B"})
SpecRfe == InitRfe /\ [][NextRfe]_vars

\* the statements up to extractRecommendations
NextLists ==
    \/ NextRfe
    \/ ExtractWeaknesses
    \/ ExtractStrengths
    \/ ExtractRecommendations

\* reports about the lists of weaknesses, strengths and recommendations
InitLists == InitWith(Texts(ListVocab, MaxListFrags), {"O-1B"})
SpecLists == InitLists /\ [][NextLists]_vars

\* extractBulletPoints on its own: a call with the report as its text
InitBullets ==
    /\ report \in Texts(BulletVocab, MaxBulletFrags)
    /\ visaType = "O-1B"
    /\ pc = "extractBulletPoints"
    /\ overallScore = Unset
    /\ scoreStep = Unset
    /\ overallRating = Unset
    /\ probabilities = Unset
    /\ criteriaScores = <<>>
    /\ evidenceQuality = Unset
    /\ rfePredictions = <<>>
    /\ lastIndex = 1
    /\ weaknesses = Unset
    /\ strengths = Unset
    /\ recommendations = Unset
    /\ parsed = <<>>
    /\ items = Unset
    /\ NoAICall
    /\ NoCredits
    /\ NoRun

\* the body of extractBulletPoints, up to `return items`
ExtractBulletPoints ==
    /\ pc = "extractBulletPoints"
    /\ items' = extractBulletPoints(Chars(report))
    /\ pc' = "returnItems"
    /\ UNCHANGED <<headVars, evidenceQuality, rfePredictions, lastIndex, weaknesses, strengths,
                   recommendations, parsed, aiVars, creditVars,
                   runVars>>

NextBullets == ExtractBulletPoints
SpecBullets == InitBullets /\ [][NextBullets]_vars

\* parseOfficerReport to its end, called again and again
NextParse ==
    \/ NextLists
    \/ Return
    \/ ThrowNotIterable
    \/ ParseAgain

\* the reports of ParseReports, for every visa type the scoring routes let through
InitParse == InitWith(ParseReports, RouteVisaTypes)
SpecParse == InitParse /\ [][NextParse]_vars

-----------------------------------------------------------------------------
(* callAIWithFallback, statement by statement. *)

\* a call of callAIWithFallback from runOfficerScoring (line 91), before any report
\* is parsed, in every configuration and for every number of retries
InitAI ==
    /\ report = ""
    /\ visaType = "O-1A"
    /\ pc = "callAIWithFallback"
    /\ overallScore = Unset
    /\ scoreStep = Unset
    /\ overallRating = Unset
    /\ probabilities = Unset
    /\ criteriaScores = <<>>
    /\ evidenceQuality = Unset
    /\ rfePredictions = <<>>
    /\ lastIndex = 1
    /\ weaknesses = Unset
    /\ strengths = Unset
    /\ recommendations = Unset
    /\ parsed = <<>>
    /\ items = Unset
    /\ aiPc = "callClaude"
    /\ anthropicKey \in BOOLEAN
    /\ openaiKey \in BOOLEAN
    /\ maxRetries \in 0..MaxRetries
    /\ initialDelay = DefaultInitialDelay
    /\ attempt = 0
    /\ errors = <<>>
    /\ waits = <<>>
    /\ calls = [claude |-> 0, openai |-> 0]
    /\ thrown = NoError
    /\ aiResult = NoResult
    /\ NoCredits
    /\ NoRun

\* callClaude: getAnthropicClient() throws, no key being configured
GetAnthropicClientThrows ==
    /\ aiPc = "callClaude"
    /\ ~anthropicKey
    /\ thrown' = NotConfigured
    /\ aiPc' = "catchClaudeError"
    /\ UNCHANGED <<parseVars, creditVars, runVars, anthropicKey, openaiKey, maxRetries, initialDelay, attempt,
                   errors, waits, calls, aiResult>>

\* callClaude: retryWithBackoff is entered, let attempt = 0
EnterRetryWithBackoff ==
    /\ aiPc = "callClaude"
    /\ anthropicKey
    /\ attempt' = 0
    /\ aiPc' = "retryLoop"
    /\ UNCHANGED <<parseVars, creditVars, runVars, anthropicKey, openaiKey, maxRetries, initialDelay, errors, waits,
                   calls, thrown, aiResult>>

\* return await fn(): the API answers; callClaude returns the text of the answer, and
\* callAIWithFallback returns it as Claude's, or callClaude finds no text in it
FnResolves ==
    /\ aiPc = "retryLoop"
    /\ attempt < maxRetries
    /\ calls' = [calls EXCEPT !.claude = @ + 1]
    /\ \E hasText \in BOOLEAN :
          IF hasText
          THEN /\ aiResult' = Content("text of Claude", "claude")
               /\ aiPc' = "returned"
               /\ UNCHANGED thrown
          ELSE /\ thrown' = NoTextContent
               /\ aiPc' = "catchClaudeError"
               /\ UNCHANGED aiResult
    /\ UNCHANGED <<parseVars, creditVars, runVars, anthropicKey, openaiKey, maxRetries, initialDelay, attempt,
                   errors, waits>>

\* await fn() rejects: catch (error), lastError = error
FnRejects ==
    /\ aiPc = "retryLoop"
    /\ attempt < maxRetries
    /\ calls' = [calls EXCEPT !.claude = @ + 1]
    /\ \E error \in Rejections : errors' = Append(errors, error)
    /\ aiPc' = "retryCatch"
    /\ UNCHANGED <<parseVars, creditVars, runVars, anthropicKey, openaiKey, maxRetries, initialDelay, attempt,
                   waits, thrown, aiResult>>

\* if (err.status === 400 || err.status === 401 || err.status === 403) throw error
ThrowNonRetryable ==
    /\ aiPc = "retryCatch"
    /\ isNonRetryable(lastError)
    /\ thrown' = lastError
    /\ aiPc' = "catchClaudeError"
    /\ UNCHANGED <<parseVars, creditVars, runVars, anthropicKey, openaiKey, maxRetries, initialDelay, attempt,
                   errors, waits, calls, aiResult>>

\* if (!isRetryable || attempt === maxRetries - 1) throw error
ThrowNotRetryableOrLast ==
    /\ aiPc = "retryCatch"
    /\ ~isNonRetryable(lastError)
    /\ ~isRetryable(lastError) \/ attempt = maxRetries - 1
    /\ thrown' = lastError
    /\ aiPc' = "catchClaudeError"
    /\ UNCHANGED <<parseVars, creditVars, runVars, anthropicKey, openaiKey, maxRetries, initialDelay, attempt,
                   errors, waits, calls, aiResult>>

\* await new Promise((resolve) => setTimeout(resolve, delay)), then attempt++
Backoff ==
    /\ aiPc = "retryCatch"
    /\ ~isNonRetryable(lastError)
    /\ ~(~isRetryable(lastError) \/ attempt = maxRetries - 1)
    /\ waits' = Append(waits, backoffDelay(initialDelay, attempt))
    /\ attempt' = attempt + 1
    /\ aiPc' = "retryLoop"
    /\ UNCHANGED <<parseVars, creditVars, runVars, anthropicKey, openaiKey, maxRetries, initialDelay, errors, calls,
                   thrown, aiResult>>

\* throw lastError (line 72), the loop being over
ThrowLastError ==
    /\ aiPc = "retryLoop"
    /\ ~(attempt < maxRetries)
    /\ thrown' = lastError
    /\ aiPc' = "catchClaudeError"
    /\ UNCHANGED <<parseVars, creditVars, runVars, anthropicKey, openaiKey, maxRetries, initialDelay, attempt,
                   errors, waits, calls, aiResult>>

\* catch (claudeError) with no OPENAI_API_KEY: throw claudeError
ThrowClaudeError ==
    /\ aiPc = "catchClaudeError"
    /\ ~openaiKey
    /\ aiResult' = Failure(thrown)
    /\ aiPc' = "threw"
    /\ UNCHANGED <<parseVars, creditVars, runVars, anthropicKey, openaiKey, maxRetries, initialDelay, attempt,
                   errors, waits, calls, thrown>>

\* callOpenAI answers: return { content, provider: 'openai' }, content being '' when
\* the answer has none
CallOpenAIResolves ==
    /\ aiPc = "catchClaudeError"
    /\ openaiKey
    /\ calls' = [calls EXCEPT !.openai = @ + 1]
    /\ \E content \in {"text of OpenAI", ""} : aiResult' = Content(content, "openai")
    /\ aiPc' = "returned"
    /\ UNCHANGED <<parseVars, creditVars, runVars, anthropicKey, openaiKey, maxRetries, initialDelay, attempt,
                   errors, waits, thrown>>

\* callOpenAI rejects: catch (openaiError), then throw claudeError
CallOpenAIRejects ==
    /\ aiPc = "catchClaudeError"
    /\ openaiKey
    /\ calls' = [calls EXCEPT !.openai = @ + 1]
    /\ \E openaiError \in Rejections : aiResult' = Failure(rethrown(thrown, openaiError))
    /\ aiPc' = "threw"
    /\ UNCHANGED <<parseVars, creditVars, runVars, anthropicKey, openaiKey, maxRetries, initialDelay, attempt,
                   errors, waits, thrown>>

NextAI ==
    \/ GetAnthropicClientThrows
    \/ EnterRetryWithBackoff
    \/ FnResolves
    \/ FnRejects
    \/ ThrowNonRetryable
    \/ ThrowNotRetryableOrLast
    \/ Backoff
    \/ ThrowLastError
    \/ ThrowClaudeError
    \/ CallOpenAIResolves
    \/ CallOpenAIRejects

\* every promise settles and every timer fires: a step that can be taken is taken
SpecAI == InitAI /\ [][NextAI]_vars /\ WF_vars(NextAI)

\* where the calls stand
RetryOver == aiPc \in {"catchClaudeError", "returned", "threw"}
AIOver == aiPc \in {"returned", "threw"}
ClaudeAnswered == aiResult = Content("text of Claude", "claude")
ClaudeFailed == thrown # NoError

-----------------------------------------------------------------------------
(* What has run. *)

ScoreDone == pc # "extractScore"
RatingDone == pc \notin {"extractScore", "getOverallRating"}
ProbDone == pc \notin {"extractScore", "getOverallRating", "extractProbabilities"}
CriteriaDone ==
    pc \notin {"extractScore", "getOverallRating", "extractProbabilities", "extractCriteriaScores"}
EvidenceDone == CriteriaDone /\ pc # "extractEvidenceQuality"
RfeDone == EvidenceDone /\ pc # "extractRFEPredictions"
WeaknessesDone == RfeDone /\ pc # "extractWeaknesses"
StrengthsDone == WeaknessesDone /\ pc # "extractStrengths"
RecommendationsDone == StrengthsDone /\ pc # "extractRecommendations"
BulletsDone == pc = "returnItems"
Returned == pc = "returned"
Threw == pc = "threw"

\* the report contains the word w, whatever the case of its letters
Mentions(w) == match(Chars(report), LitI(w)).ok

\* the number a pattern of extractScore reads from the report
Found(pattern) == match(Chars(report), pattern).ok
NumberOf(pattern) == parseInt(Group(Chars(report), match(Chars(report), pattern), 1))

-----------------------------------------------------------------------------
(* Claims about the overall score and rating, under SpecScore. *)

\* C1: the overall rating is the step function of the overall score and of nothing
\* else: Approve iff score >= 70, RFE Likely iff 50 <= score < 70, Denial Risk iff
\* score < 50, whatever the report says.
C1_RatingIsStepOfScore ==
    RatingDone =>
        /\ overallRating \in {"Approve", "RFE Likely", "Denial Risk"}
        /\ overallRating = "Approve" <=> overallScore >= 70
        /\ overallRating = "RFE Likely" <=> (50 <= overallScore /\ overallScore < 70)
        /\ overallRating = "Denial Risk" <=> overallScore < 50

\* a report that speaks of approval and whose score of exactly 70 is rated Approve,
\* and not by its words: the same words with the score 50 are rated RFE Likely
C1_Witness ==
    /\ RatingDone
    /\ Mentions("approve")
    /\ Mentions("denial")
    /\ overallScore = 70
    /\ overallRating = "Approve"

\* C3: the overall score is an integer of 0..100, whichever step of extractScore
\* produced it.
C3_ScoreInRange == ScoreDone => overallScore \in 0..100

\* C6: extractScore is an ordered fallback chain: the TOTAL row, then the
\* "overall score" phrase, then any bolded n/100, then the keywords; a step is used
\* only when no earlier pattern matches anywhere in the report, wherever the
\* patterns occur.
C6_FirstMatchingPatternWins ==
    ScoreDone =>
        /\ scoreStep \in 1..4
        /\ Found(totalPattern) => scoreStep = 1 /\ overallScore = NumberOf(totalPattern)
        /\ ~Found(totalPattern) /\ Found(overallScorePattern) =>
               scoreStep = 2 /\ overallScore = NumberOf(overallScorePattern)
        /\ ~Found(totalPattern) /\ ~Found(overallScorePattern) /\ Found(anyScorePattern) =>
               scoreStep = 3 /\ overallScore = NumberOf(anyScorePattern)
        /\ scoreStep = 4 =>
               ~Found(totalPattern) /\ ~Found(overallScorePattern) /\ ~Found(anyScorePattern)

\* the "overall score" phrase stands before the TOTAL row, with another number, and
\* the TOTAL row decides
C6_Witness ==
    /\ ScoreDone
    /\ Found(totalPattern)
    /\ Found(overallScorePattern)
    /\ match(Chars(report), overallScorePattern).s < match(Chars(report), totalPattern).s
    /\ NumberOf(overallScorePattern) # NumberOf(totalPattern)
    /\ scoreStep = 1
    /\ overallScore = NumberOf(totalPattern)

\* C7: with no numeric score pattern in the report, the score is 75 when the report
\* speaks of "strong approval" or "approve" in any case, else 60 for "rfe likely",
\* else 40 for "denial" or "major revision", else 55; a report with the word
\* "approve" and no score is rated Approve with 75.
C7_KeywordFallback ==
    (ScoreDone /\ ~Found(totalPattern) /\ ~Found(overallScorePattern) /\ ~Found(anyScorePattern)) =>
        /\ overallScore =
               IF Mentions("strong approval") \/ Mentions("approve") THEN 75
               ELSE IF Mentions("rfe likely") THEN 60
               ELSE IF Mentions("denial") \/ Mentions("major revision") THEN 40
               ELSE 55
        /\ (RatingDone /\ Mentions("approve")) => overallScore = 75 /\ overallRating = "Approve"

\* a report with no score that has the word "approve" beside the other keywords
C7_Witness ==
    /\ RatingDone
    /\ scoreStep = 4
    /\ Mentions("approve")
    /\ Mentions("rfe likely")
    /\ Mentions("denial")
    /\ overallScore = 75
    /\ overallRating = "Approve"

-----------------------------------------------------------------------------
(* Claims about the percentages, under SpecProb. *)

\* C4: approvalProbability, rfeProbability and denialRisk are each an integer of
\* 0..100, read from the report or derived from the score.
C4_ProbabilitiesInRange ==
    ProbDone =>
        /\ probabilities.approval \in 0..100
        /\ probabilities.rfe \in 0..100
        /\ probabilities.denial \in 0..100

\* C5: without a labeled "denial risk: n%" figure, denialRisk is
\* max(0, 100 - approval - rfe) of the approval and rfe values reported; with one,
\* denialRisk is that figure.
C5_DenialIsComplement ==
    ProbDone =>
        IF Found(denialPattern)
        THEN probabilities.denial = NumberOf(denialPattern)
        ELSE \/ /\ probabilities.approval + probabilities.rfe <= 100
                /\ probabilities.denial = 100 - probabilities.approval - probabilities.rfe
             \/ /\ probabilities.approval + probabilities.rfe > 100
                /\ probabilities.denial = 0

\* no denial figure; the approval figure is read from the report, the rfe value is
\* derived from the score, and the complement is taken of the two
C5_Witness ==
    /\ ProbDone
    /\ ~Found(denialPattern)
    /\ Found(approvalPattern)
    /\ ~Found(rfePattern)
    /\ probabilities.approval = 30
    /\ probabilities.rfe = 10
    /\ probabilities.denial = 60

-----------------------------------------------------------------------------
(* Claims about the criteria, under Spec. *)

\* the number of criteria of each visa type, as the claim C2 states it
CriterionCount(v) ==
    CASE v = "O-1A" -> 8
      [] v = "O-1B" -> 6
      [] v = "P-1A" -> 6
      [] v = "EB-1A" -> 10

\* C2: criteriaScores holds exactly one record per criterion of the visa type, in
\* ascending ordinal order, each with that criterion's number and name: 8 records
\* for O-1A, 6 for O-1B, 6 for P-1A and 10 for EB-1A, whatever the report.
C2_OneRecordPerCriterion ==
    /\ Len(criteriaScores) <= CriterionCount(visaType)
    /\ \A k \in 1..Len(criteriaScores) :
           /\ criteriaScores[k].criterionNumber = k
           /\ criteriaScores[k].criterionName = VISA_CRITERIA(visaType)[k].name
    /\ CriteriaDone => Len(criteriaScores) = CriterionCount(visaType)

\* the ten records of an EB-1A report whose tenth criterion is rated
C2_Witness ==
    /\ CriteriaDone
    /\ visaType = "EB-1A"
    /\ Len(criteriaScores) = 10
    /\ criteriaScores[10].rating = "Weak"
    /\ criteriaScores[4].rating = "Not Claimed"

\* a reference to criterion n by its exact ordinal number: "criterion 10" is none to 1
exactReference(n) ==
    LitI("criterion") \o <<Star(Ws)>> \o Lit(numeral(n))
    \o <<Look(<<<<One(NotIn(CharsOf(DigitChars)))>>, EndOfText>>)>>

MentionedExactly(n) == match(Chars(report), exactReference(n)).ok

\* a reference to a criterion whose number starts with the digits of n and goes on
longerReference(n) == LitI("criterion") \o <<Star(Ws)>> \o Lit(numeral(n)) \o <<One(Digit)>>

\* the report refers to criterion n, and to no criterion whose number n starts
HasOwnSection(n) == MentionedExactly(n) /\ ~match(Chars(report), longerReference(n)).ok

\* a reference to a criterion other than n
otherReference(n) ==
    LitI("criterion")
    \o <<Star(Ws), Look(<<<<One(NotIn(Space))>>, EndOfText>>),
         NotLook(<<Lit(numeral(n)) \o <<Look(<<<<One(NotIn(CharsOf(DigitChars)))>>, EndOfText>>)>>>>)>>

\* the section of criterion n: from its first exact reference up to the next
\* reference to another criterion or the line of the overall score, or to the end
\* of the report
Section(n) ==
    LET t == Chars(report)
        m == match(t, exactReference(n))
        next == match(SubSeq(t, m.e, Len(t)),
                      <<Alt(<<otherReference(n), LitI("overall") \o <<Plus(Ws)>> \o LitI("score")>>)>>)
    IN  SubSeq(t, m.s, IF next.ok THEN m.e + next.s - 2 ELSE Len(t))

\* a rating line and a score, looked for in a section alone
ratingLine ==
    AltThen(<<LitI("my") \o <<Plus(Ws)>> \o LitI("rating"), LitI("rating")>>,
            <<Star(In(Colon \cup Space)), Open(1), Plus(NotIn({"\n"})), Close(1)>>)
scoreLine ==
    LitI("score") \o <<Star(In(Colon \cup Space)), Open(1), Plus(Digit), Close(1)>>

HasRatingLine(n) == match(Section(n), ratingLine).ok
HasEvidenceScore(n) == match(Section(n), scoreLine).ok

\* the rating a rating line states: the first of Strong, Adequate, Weak,
\* Insufficient that its text contains, in any case
StatedRating(n) ==
    LET line == Group(Section(n), match(Section(n), ratingLine), 1)
        has(w) == match(line, LitI(w)).ok
    IN  IF has("strong") THEN "Strong"
        ELSE IF has("adequate") THEN "Adequate"
        ELSE IF has("weak") THEN "Weak"
        ELSE IF has("insufficient") THEN "Insufficient"
        ELSE "Not Claimed"

\* the score fixed by a rating, and the band of a score, as the claim C9 states them
FixedScore(rating) ==
    CASE rating = "Strong" -> 85
      [] rating = "Adequate" -> 70
      [] rating = "Weak" -> 50
      [] rating = "Insufficient" -> 30
      [] rating = "Not Claimed" -> 0
Band(score) ==
    IF score >= 80 THEN "Excellent"
    ELSE IF score >= 65 THEN "Good"
    ELSE IF score >= 45 THEN "Fair"
    ELSE "Poor"

\* C8: a criterion N that the report never refers to by its exact ordinal number
\* has rating Not Claimed, score 0 and no officer concerns, whatever the report says
\* about other criteria.
C8_UnmentionedIsNotClaimed ==
    \A k \in 1..Len(criteriaScores) :
        ~MentionedExactly(k) =>
            /\ criteriaScores[k].rating = "Not Claimed"
            /\ criteriaScores[k].score = 0
            /\ criteriaScores[k].officerConcerns = <<>>

\* C9: a criterion whose section states a rating and gives no evidence score has
\* the score fixed by its rating, whatever follows the section; and the
\* evidenceQuality of every record is the band of its score.  (Stated of the
\* criteria with a section of their own, which C8's confusion of numbers spares.)
C9_ScoreFixedByRating ==
    \A k \in 1..Len(criteriaScores) :
        /\ (HasOwnSection(k) /\ HasRatingLine(k) /\ ~HasEvidenceScore(k)) =>
               criteriaScores[k].score = FixedScore(criteriaScores[k].rating)
        /\ criteriaScores[k].evidenceQuality = Band(criteriaScores[k].score)

\* C10: the rating of a criterion is the one its own rating line states (Strong,
\* Adequate, Weak, Insufficient by containment in that order, else Not Claimed); a
\* section with no rating line of its own is rated Not Claimed, also when a later
\* section has a rating line.  (Stated of the criteria with a section of their own,
\* which C8's confusion of numbers spares.)
C10_RatingFromOwnLine ==
    \A k \in 1..Len(criteriaScores) :
        HasOwnSection(k) =>
            criteriaScores[k].rating =
                IF HasRatingLine(k) THEN StatedRating(k) ELSE "Not Claimed"

-----------------------------------------------------------------------------
(* Claims about the evidence quality, under SpecEvidence. *)

\* C11: the overall assessment is a function of tier1Count and tier2Count only, in
\* priority order: tier1 >= 5 gives Strong; else tier1 >= 3 or tier2 >= 5 gives
\* Moderate; else tier1 >= 1 or tier2 >= 3 gives Weak; else Insufficient.  The
\* tier-3 and tier-4 counts never change the label.
C11_AssessmentOfTiers1And2 ==
    EvidenceDone =>
        LET t1 == evidenceQuality.tier1Count
            t2 == evidenceQuality.tier2Count
        IN  evidenceQuality.overallAssessment =
                CASE t1 >= 5 -> "Strong"
                  [] t1 < 5 /\ (t1 >= 3 \/ t2 >= 5) -> "Moderate"
                  [] t1 < 3 /\ t2 < 5 /\ (t1 >= 1 \/ t2 >= 3) -> "Weak"
                  [] t1 < 1 /\ t2 < 3 -> "Insufficient"

\* a report with no tier-1 items, too few tier-2 items for Weak and many tier-3 and
\* tier-4 items is assessed Insufficient
C11_Witness ==
    /\ EvidenceDone
    /\ evidenceQuality.tier1Count = 0
    /\ evidenceQuality.tier2Count = 0
    /\ evidenceQuality.tier3Count = 9
    /\ evidenceQuality.tier4Count = 7
    /\ evidenceQuality.overallAssessment = "Insufficient"

\* tier k's own label and the cell that follows it: `tier k`, not the start of a
\* longer number, then on the same line a pipe and a number
ownCell(k) ==
    LitI("tier") \o <<Star(Ws)>> \o Lit(numeral(k))
    \o <<NotLook(<<<<One(Digit)>>>>), Star(NotIn(Pipe \cup {"\n"}))>> \o Lit("|")
    \o <<Star(In({" ", "\t"})), Open(1), Plus(Digit), Close(1)>>

HasOwnCell(k) == Found(ownCell(k))

tierCounts ==
    <<evidenceQuality.tier1Count, evidenceQuality.tier2Count,
      evidenceQuality.tier3Count, evidenceQuality.tier4Count>>

\* C12: for each tier k in 1..4, tierKCount is the number in the pipe-delimited cell
\* that follows tier k's own label, and is 0 whenever the report contains no such
\* labeled numeric cell for tier k, also when tier k is named without a numeric cell
\* and another tier's row follows.
C12_TierCountFromOwnCell ==
    EvidenceDone =>
        \A k \in TierNumbers :
            tierCounts[k] = IF HasOwnCell(k) THEN NumberOf(ownCell(k)) ELSE 0

-----------------------------------------------------------------------------
(* Claims about the RFE predictions, under SpecRfe. *)

\* the heading of the RFE-predictions section, and the section: from the heading to
\* the next ## or to the end of the report
rfeHeading == LitI("rfe") \o <<Plus(Ws)>> \o LitI("prediction") \o <<Opt(In({"s", "S"}))>>
HasRfeHeading == Found(rfeHeading)
RfeSectionText ==
    LET t == Chars(report)
        h == match(t, rfeHeading)
        ends == {q \in h.e..(Len(t) - 1) : t[q] = "#" /\ t[q + 1] = "#"}
    IN  SubSeq(t, h.s, IF ends = {} THEN Len(t) ELSE Min(ends) - 1)

\* a line that is a table row of the shape | topic | n% | description |
shapedRow ==
    Lit("|") \o <<Open(1), Plus(NotIn(Pipe)), Close(1)>> \o Lit("|")
    \o <<Star(Ws), Open(2), Plus(Digit), Close(2), Star(Ws)>> \o Lit("%") \o <<Star(Ws)>>
    \o Lit("|") \o <<Open(3), Plus(NotIn(Pipe)), Close(3)>> \o Lit("|") \o EndOfText
AsRow(line) == M(trim(line), shapedRow, 1, 1, NoCaps)
Cell(line, n) == trim(Group(trim(line), AsRow(line), n))
IsListedRow(line) ==
    /\ AsRow(line).ok
    /\ ~includes(Cell(line, 1), "Topic")
    /\ ~includes(Cell(line, 1), "---")

\* the entries of the rows among the lines k.. of a section, in order
RECURSIVE ListedRows(_, _)
ListedRows(lines, k) ==
    IF k > Len(lines) THEN <<>>
    ELSE (IF IsListedRow(lines[k])
          THEN <<[topic |-> Str(Cell(lines[k], 1)),
                  probability |-> parseInt(Cell(lines[k], 2)),
                  officerPerspective |-> Str(Cell(lines[k], 3)),
                  suggestedEvidence |-> <<>>]>>
          ELSE <<>>) \o ListedRows(lines, k + 1)

\* C13: rfePredictions is exactly the sequence, in report order, of the table rows
\* of shape | topic | n% | description | inside the RFE-predictions section (from its
\* heading to the next ## or the end of the text), one entry per row, but for the
\* rows whose topic contains the word Topic or a run of dashes; rows outside the
\* section contribute nothing, and without the heading the list is empty.
C13_PredictionsAreSectionRows ==
    RfeDone =>
        rfePredictions =
            IF HasRfeHeading THEN ListedRows(splitLines(RfeSectionText), 1) ELSE <<>>

-----------------------------------------------------------------------------
(* Claims about the lists, under SpecLists. *)

\* the section of a keyword: from its first occurrence, whatever the case of its
\* letters, up to the next ##, the next double blank line, or the end of the report
Present(keyword) == Found(LitI(keyword))
SectionOf(keyword) ==
    LET t == Chars(report)
        h == match(t, LitI(keyword))
        ends == {q \in h.e..Len(t) :
                    \/ q + 1 <= Len(t) /\ t[q] = "#" /\ t[q + 1] = "#"
                    \/ q + 2 <= Len(t) /\ t[q] = "\n" /\ t[q + 1] = "\n" /\ t[q + 2] = "\n"}
    IN  SubSeq(t, h.s, IF ends = {} THEN Len(t) ELSE Min(ends) - 1)
BulletsOf(keyword) ==
    IF Present(keyword) THEN extractBulletPoints(SectionOf(keyword)) ELSE <<>>

\* the bullets of the first keyword, in the order given, that has any
FirstWithBullets(keywords) ==
    LET having == {k \in 1..Len(keywords) : BulletsOf(keywords[k]) # <<>>}
    IN  IF having = {} THEN <<>> ELSE BulletsOf(keywords[Min(having)])

\* C14: extractListItems tries its keywords in the given priority order and returns
\* the bullets of the first keyword whose section (from the keyword's first
\* occurrence up to the next ##, a double blank line, or the end of the text) holds
\* at least one bullet; a later keyword is consulted only when every earlier one is
\* absent or yields no bullets; when no keyword yields bullets the list is empty.
C14_FirstKeywordWithBullets ==
    RecommendationsDone =>
        /\ weaknesses = FirstWithBullets(WeaknessKeywords)
        /\ strengths = FirstWithBullets(StrengthKeywords)
        /\ recommendations.critical = FirstWithBullets(CriticalKeywords)
        /\ recommendations.high = FirstWithBullets(HighKeywords)
        /\ recommendations.recommended = FirstWithBullets(RecommendedKeywords)

\* the first keyword of the weaknesses is present and has no bullets in its section,
\* and the weaknesses are the bullets of the second keyword
C14_Witness ==
    /\ RecommendationsDone
    /\ Present("RED FLAGS")
    /\ BulletsOf("RED FLAGS") = <<>>
    /\ weaknesses = <<"No independent press">>
    /\ weaknesses = BulletsOf("CONCERNS")
    /\ recommendations.critical = <<>>

-----------------------------------------------------------------------------
(* Claims about the bullet points, under SpecBullets. *)

\* a line that, once trimmed, starts with -, *, the bullet, or a numeral and a dot
IsMarked(line) ==
    LET l == trim(line)
    IN  /\ l # <<>>
        /\ \/ l[1] \in {"-", "*", BulletDot}
           \/ \E n \in 1..(Len(l) - 1) :
                 /\ \A j \in 1..n : l[j] \in CharsOf(DigitChars)
                 /\ l[n + 1] = "."

\* its content: the line without its leading marker characters, trimmed
Unmarked(line) ==
    LET l == trim(line)
        markers == {"-", "*", BulletDot, "."} \cup CharsOf(DigitChars)
        kept == {j \in 1..Len(l) : l[j] \notin markers}
    IN  IF kept = {} THEN <<>> ELSE trim(SubSeq(l, Min(kept), Len(l)))

IsItem(line) == IsMarked(line) /\ Len(Unmarked(line)) >= 6

\* the lines of the text: its pieces between line breaks
TextLines == splitLines(Chars(report))
ItemLines == SelectSeq(TextLines, IsItem)

\* C15: extractBulletPoints returns, in input order, exactly the marker-stripped and
\* trimmed content of the lines that (trimmed) start with -, *, the bullet or a
\* numeral followed by a dot, keeping an item iff its content has at least 6
\* characters; lines without a marker never contribute.
C15_BulletsAreMarkedLines ==
    BulletsDone =>
        /\ Len(items) = Len(ItemLines)
        /\ \A k \in 1..Len(items) : items[k] = Str(Unmarked(ItemLines[k]))

\* "- ok" gives no item and "- Insufficient documentation of criterion 3" gives one,
\* between a line with a numeral and no dot and a line with no marker
C15_Witness ==
    /\ BulletsDone
    /\ report = "- ok\n- Insufficient documentation of criterion 3\n2020 was a good year\n"
    /\ items = <<"Insufficient documentation of criterion 3">>

-----------------------------------------------------------------------------
(* Claims about the whole parser, under SpecParse. *)

\* C16: parsing is deterministic and stateless: for every report and visa type, two
\* calls of the parser, back to back or with parses of other reports in between,
\* have the same outcome and return the same record; nothing survives from one
\* parse to the next, and the global pattern of extractRFEPredictions is back at
\* the start of its text when a parse is over.
C16_SameReportSameOutput ==
    /\ \A i, j \in 1..Len(parsed) :
           (parsed[i].report = parsed[j].report /\ parsed[i].visaType = parsed[j].visaType)
               => parsed[i] = parsed[j]
    /\ (Returned \/ Threw) => lastIndex = 1

\* a report with two predictions parsed, then another report, then the first again,
\* with the same two predictions
C16_Witness ==
    /\ Returned
    /\ Len(parsed) = 3
    /\ parsed[1].report = parsed[3].report
    /\ parsed[2].report # parsed[1].report
    /\ Len(parsed[2].value.criteriaScores) = 6
    /\ parsed[2].value.criteriaScores[1].rating = "Weak"
    /\ Len(parsed[1].value.rfePredictions) = 2
    /\ parsed[3].value = parsed[1].value

\* what the claim C17 says of the record returned for the empty report
EmptyReportDefaults ==
    /\ returned.overallScore = 55
    /\ returned.overallRating = "RFE Likely"
    /\ returned.approvalProbability = 40
    /\ returned.rfeProbability = 45
    /\ returned.denialRisk = 15
    /\ Len(returned.criteriaScores) = CriterionCount(visaType)
    /\ \A k \in 1..Len(returned.criteriaScores) :
           /\ returned.criteriaScores[k].rating = "Not Claimed"
           /\ returned.criteriaScores[k].score = 0
           /\ returned.criteriaScores[k].officerConcerns = <<>>
    /\ returned.evidenceQuality.tier1Count = 0
    /\ returned.evidenceQuality.tier2Count = 0
    /\ returned.evidenceQuality.tier3Count = 0
    /\ returned.evidenceQuality.tier4Count = 0
    /\ returned.evidenceQuality.overallAssessment = "Insufficient"
    /\ returned.rfePredictions = <<>>
    /\ returned.weaknesses = <<>>
    /\ returned.strengths = <<>>
    /\ returned.recommendations = [critical |-> <<>>, high |-> <<>>, recommended |-> <<>>]

\* C17: the parser has no failure outcome: for every report, the empty one included,
\* and every visa type value that reaches it from the scoring routes, it returns a
\* fully populated record and raises nothing; for the empty report the record holds
\* the defaults (55, RFE Likely, 40, 45, 15, every criterion Not Claimed with score 0
\* and no concerns, tier counts 0 and Insufficient, empty lists).
C17_NoFailureOutcome ==
    /\ ~Threw
    /\ \A k \in 1..Len(parsed) : parsed[k].outcome = "returned"
    /\ (Returned /\ report = "") => EmptyReportDefaults

-----------------------------------------------------------------------------
(* Claims about the AI client, under SpecAI. *)

\* the delays awaited so far are initialDelay, twice that, four times that, ...
ExponentialWaits == \A k \in 1..Len(waits) : waits[k] = initialDelay * (2 ^ (k - 1))

\* what C18 says of every state: at most maxRetries invocations; one delay, of the
\* next power of two, before each retry, so that the retry after the failed attempt
\* k has waited initialDelay * 2^(k-1); a success ends the call with the invocation
\* that gave it; the maxRetries-th failure is thrown as it is, with no delay after it
BoundedBackoff ==
    /\ calls.claude <= maxRetries
    /\ ExponentialWaits
    /\ aiPc = "retryLoop" => (Len(waits) = attempt /\ calls.claude = attempt)
    /\ aiPc = "retryCatch" => (Len(waits) = attempt /\ calls.claude = attempt + 1)
    /\ ClaudeAnswered => (calls.claude = Len(errors) + 1 /\ Len(waits) = Len(errors))
    /\ (RetryOver /\ maxRetries >= 1 /\ Len(errors) = maxRetries) =>
           (thrown = lastError /\ calls.claude = maxRetries /\ Len(waits) = maxRetries - 1)

\* once retryWithBackoff is over, the API of Claude is not invoked again
NoInvocationAfterwards == [][RetryOver => calls'.claude = calls.claude]_vars

\* C18: retryWithBackoff is bounded and backs off exponentially: for maxRetries = n
\* it invokes the operation at most n times and always terminates, returning the
\* first successful result without any further invocation; before the retry that
\* follows the failed attempt k it waits initialDelay * 2^(k-1) ms; after the n-th
\* failure it propagates that error without waiting.
C18_BoundedExponentialBackoff ==
    /\ []BoundedBackoff
    /\ NoInvocationAfterwards
    /\ <>RetryOver

\* the defaults: three failed invocations, delays of 1000 and 2000 ms between them,
\* and the third error thrown
C18_Witness ==
    /\ RetryOver
    /\ maxRetries = DefaultMaxRetries
    /\ initialDelay = DefaultInitialDelay
    /\ calls.claude = 3
    /\ Len(errors) = 3
    /\ waits = <<1000, 2000>>
    /\ thrown = errors[3]

\* an error is transient when its status is 429 or at least 500, or its code is
\* ECONNRESET or ETIMEDOUT, and its status is none of 400, 401 and 403
Transient(error) ==
    /\ \/ error.status = 429
       \/ error.status >= 500
       \/ error.code \in {"ECONNRESET", "ETIMEDOUT"}
    /\ error.status \notin {400, 401, 403}

\* C19: retryWithBackoff retries only transient failures: an error that is not
\* transient is propagated at once, after the one invocation that met it, with no
\* delay and no further invocation; a transient error causes a further attempt
\* whenever attempts remain.
C19_OnlyTransientRetried ==
    /\ calls.claude >= Len(errors)
    /\ \A k \in 1..(Len(errors) - 1) : Transient(errors[k])
    /\ (errors # <<>> /\ ~Transient(lastError)) =>
           /\ calls.claude = Len(errors)
           /\ Len(waits) = Len(errors) - 1
           /\ aiPc # "retryLoop"
           /\ aiPc # "retryCatch" => thrown = lastError
    /\ (RetryOver /\ errors # <<>> /\ Transient(lastError) /\ thrown = lastError) =>
           Len(errors) = maxRetries

\* a 404 at the first of three attempts: thrown after one invocation and no delay
C19_Witness ==
    /\ RetryOver
    /\ maxRetries = 3
    /\ errors = <<Err(404, "none")>>
    /\ calls.claude = 1
    /\ waits = <<>>
    /\ thrown = Err(404, "none")

\* C20: callAIWithFallback is an ordered fallback: OpenAI is invoked only after the
\* call of Claude has failed, its retries exhausted included, and only when it is
\* configured; the result is the first successful content, with the provider that
\* produced it; when both fail or OpenAI is not configured, the call fails with
\* the error of Claude.
C20_OrderedFallback ==
    /\ calls.openai <= 1
    /\ calls.openai = 1 => (ClaudeFailed /\ openaiKey /\ AIOver)
    /\ (AIOver /\ ClaudeFailed /\ openaiKey) => calls.openai = 1
    /\ aiPc = "returned" =>
           /\ aiResult.outcome = "returned"
           /\ aiResult.provider = "claude" =>
                  (~ClaudeFailed /\ calls.openai = 0 /\ calls.claude >= 1)
           /\ aiResult.provider = "openai" => calls.openai = 1
           /\ aiResult.provider \in {"claude", "openai"}
    /\ aiPc = "threw" =>
           /\ ClaudeFailed
           /\ aiResult = Failure(thrown)
           /\ ~openaiKey \/ calls.openai = 1

\* Claude has failed three times, and the content is OpenAI's
C20_Witness ==
    /\ aiPc = "returned"
    /\ calls.claude = 3
    /\ Len(errors) = 3
    /\ thrown = errors[3]
    /\ calls.openai = 1
    /\ aiResult = Content("text of OpenAI", "openai")

-----------------------------------------------------------------------------
(* Reports that state an overall score and, some of them, one percentage. *)

\* the score line the scoring prompt asks for, for a score of n
scoreReport(n) == "Overall Score: " \o numeral(n) \o "\n"

DerivedReports ==
    {scoreReport(n) : n \in 0..MaxDerivedScore}
    \cup {scoreReport(n) \o "Denial Risk: 5%\n" : n \in 0..MaxDerivedScore}

InitDerived == InitWith(DerivedReports, {"O-1A"})
SpecDerived == InitDerived /\ [][NextScore]_vars

-----------------------------------------------------------------------------
(* Reports with section 7 as getFullPetitionPrompt lays it out: three labeled   *)
(* blocks of numbered actions, a single blank line between them.                *)

\* the i-th action of a block
actionLine(action, i) == numeral(i) \o ". " \o action \o " " \o numeral(i) \o "\n"

\* a block: its label and its first k actions
RECURSIVE actionLines(_, _)
actionLines(action, k) ==
    IF k = 0 THEN "" ELSE actionLines(action, k - 1) \o actionLine(action, k)

recommendationSection(c, h, r) ==
    "## 7. MY RECOMMENDATION\n\n**Actions Required Before Filing:**\n\n"
    \o "CRITICAL (Must do):\n" \o actionLines("Obtain expert letter", c) \o "\n"
    \o "HIGH PRIORITY (Should do):\n" \o actionLines("Add press article", h) \o "\n"
    \o "RECOMMENDED (Would help):\n" \o actionLines("Update resume page", r) \o "\n"
    \o "## 8. SCORING MATRIX\n"

RecReports ==
    {recommendationSection(c, h, r) : c \in 1..MaxRecItems, h \in 1..MaxRecItems,
                                      r \in 1..MaxRecItems}
    \cup {"", "CRITICAL (Must do):\n1. Obtain expert letter 1\n"}

InitRecs == InitWith(RecReports, {"O-1B"})
SpecRecs == InitRecs /\ [][NextLists]_vars

-----------------------------------------------------------------------------
(* Claims about the recommendations, under SpecRecs. *)

\* the block of a label: from the label up to the next blank line or the end
BlockOf(label) ==
    LET t == Chars(report)
        h == match(t, LitI(label))
        ends == {q \in h.e..Len(t) : q + 1 <= Len(t) /\ t[q] = "\n" /\ t[q + 1] = "\n"}
    IN  SubSeq(t, h.s, IF ends = {} THEN Len(t) ELSE Min(ends))
ItemsUnder(label) ==
    IF Present(label) THEN extractBulletPoints(BlockOf(label)) ELSE <<>>

\* C29: the three recommendation lists are separated by severity: when the report
\* lists its CRITICAL, HIGH PRIORITY and RECOMMENDED actions as three labeled blocks
\* separated by single blank lines inside one ## section, recommendations.critical
\* holds only the items under CRITICAL, recommendations.high only those under
\* HIGH PRIORITY, and recommendations.recommended only those under RECOMMENDED.
C29_ListsSeparatedBySeverity ==
    RecommendationsDone =>
        /\ recommendations.critical = ItemsUnder("CRITICAL")
        /\ recommendations.high = ItemsUnder("HIGH PRIORITY")
        /\ recommendations.recommended = ItemsUnder("RECOMMENDED")

-----------------------------------------------------------------------------
(* Claims about the derived percentages, under SpecDerived. *)

\* the band of a score in the table of C30: <<approval, rfe>>
DerivedBand(score) ==
    IF score >= 85 THEN <<85, 10>>
    ELSE IF score >= 70 THEN <<65, 25>>
    ELSE IF score >= 55 THEN <<40, 45>>
    ELSE IF score >= 40 THEN <<20, 50>>
    ELSE <<10, 40>>

StatesNoPercentage ==
    /\ ~Found(approvalPattern)
    /\ ~Found(rfePattern)
    /\ ~Found(denialPattern)

\* C30: when the report states none of the three labeled percentages, the derived
\* values are complementary: approvalProbability + rfeProbability + denialRisk =
\* 100 for every overall score, with approval and rfe taken from the five score
\* bands, so that the floor at 0 is never reached and approvalProbability is
\* non-decreasing in the score.
C30_DerivedAreComplementary ==
    (ProbDone /\ StatesNoPercentage) =>
        /\ probabilities.approval = DerivedBand(overallScore)[1]
        /\ probabilities.rfe = DerivedBand(overallScore)[2]
        /\ probabilities.approval + probabilities.rfe + probabilities.denial = 100
        /\ probabilities.denial = 100 - probabilities.approval - probabilities.rfe
        /\ probabilities.denial > 0
        /\ \A lower \in 0..overallScore : DerivedBand(lower)[1] <= probabilities.approval

\* a score of 72 with no percentage stated: 65, 25 and 10
C30_Witness ==
    /\ ProbDone
    /\ StatesNoPercentage
    /\ overallScore = 72
    /\ probabilities = [approval |-> 65, rfe |-> 25, denial |-> 10]

-----------------------------------------------------------------------------
(* Usage tracking (src/app/lib/stripe/usage-tracker.ts): addPaidCredits, which *)
(* the Stripe webhook calls for every checkout.session.completed it receives,  *)
(* and recordScoringUsage, each a select followed by an insert or an update,   *)
(* and the calls running concurrently.                                          *)

\* parseOfficerReport is not running
NoParse ==
    /\ report = ""
    /\ visaType = "O-1A"
    /\ overallScore = Unset
    /\ scoreStep = Unset
    /\ overallRating = Unset
    /\ probabilities = Unset
    /\ criteriaScores = <<>>
    /\ evidenceQuality = Unset
    /\ rfePredictions = <<>>
    /\ lastIndex = 1
    /\ weaknesses = Unset
    /\ strengths = Unset
    /\ recommendations = Unset
    /\ parsed = <<>>
    /\ items = Unset

\* a usage_tracking row
Row(free, paid, subscribed) ==
    [present |-> TRUE, free_scorings_used |-> free, paid_scorings_remaining |-> paid,
     subscription_active |-> subscribed]

\* supabase.from('usage_tracking').insert(row): fingerprint is UNIQUE, so the insert
\* fails when the row exists, and the error is not looked at
insertUsage(stored, row) == IF stored.present THEN stored ELSE row

\* .update({ paid_scorings_remaining: n }).eq('fingerprint', fingerprint)
updatePaid(stored, n) ==
    IF stored.present THEN [stored EXCEPT !.paid_scorings_remaining = n] ELSE stored

\* .update({ free_scorings_used: n }).eq('fingerprint', fingerprint)
updateFree(stored, n) ==
    IF stored.present THEN [stored EXCEPT !.free_scorings_used = n] ELSE stored

\* the rows the fingerprint may have before any purchase
InitCredits ==
    /\ NoParse
    /\ pc = "usage-tracker"
    /\ NoAICall
    /\ NoRun
    /\ usage \in {NoRow, Row(0, 0, FALSE), Row(1, 0, FALSE), Row(1, 0, TRUE)}
    /\ ops = <<>>
    /\ creditsAdded = 0
    /\ paidCharged = 0

\* the webhook calls addPaidCredits(fingerprint, scoringsNum, session.id)
CallAddPaidCredits ==
    /\ pc = "usage-tracker"
    /\ dbConfigured
    /\ Len(ops) < MaxOps
    /\ \E credits \in 1..MaxCredits :
          ops' = Append(ops, [name |-> "addPaidCredits", at |-> "select",
                              credits |-> credits, existing |-> NoRow])
    /\ UNCHANGED <<parseVars, aiVars, runVars, usage, creditsAdded, paidCharged>>

\* a scoring calls recordScoringUsage(fingerprint, sessionId)
CallRecordScoringUsage ==
    /\ pc = "usage-tracker"
    /\ dbConfigured
    /\ Len(ops) < MaxOps
    /\ ops' = Append(ops, [name |-> "recordScoringUsage", at |-> "select",
                           credits |-> 0, existing |-> NoRow])
    /\ UNCHANGED <<parseVars, aiVars, runVars, usage, creditsAdded, paidCharged>>

\* const { data: existing } = await supabase.from('usage_tracking').select('*')...
SelectExisting ==
    \E i \in 1..Len(ops) :
        /\ ops[i].at = "select"
        /\ ops' = [ops EXCEPT ![i].existing = usage, ![i].at = "write"]
        /\ UNCHANGED <<parseVars, aiVars, runVars, usage, creditsAdded, paidCharged>>

\* addPaidCredits after the select: insert the row with the credits, or update
\* paid_scorings_remaining to existing.paid_scorings_remaining + credits
WriteCredits ==
    \E i \in 1..Len(ops) :
        /\ ops[i].name = "addPaidCredits"
        /\ ops[i].at = "write"
        /\ usage' = IF ~ops[i].existing.present
                    THEN insertUsage(usage, Row(0, ops[i].credits, FALSE))
                    ELSE updatePaid(usage,
                                    ops[i].existing.paid_scorings_remaining + ops[i].credits)
        /\ creditsAdded' = creditsAdded + ops[i].credits
        /\ ops' = [ops EXCEPT ![i].at = "done"]
        /\ UNCHANGED <<parseVars, aiVars, runVars, paidCharged>>

\* recordScoringUsage after the select: the four branches of lines 117-150
WriteUsage ==
    \E i \in 1..Len(ops) :
        LET existing == ops[i].existing IN
        /\ ops[i].name = "recordScoringUsage"
        /\ ops[i].at = "write"
        /\ IF ~existing.present
           THEN /\ usage' = insertUsage(usage, Row(1, 0, FALSE))
                /\ UNCHANGED paidCharged
           ELSE IF existing.subscription_active
           THEN UNCHANGED <<usage, paidCharged>>
           ELSE IF existing.paid_scorings_remaining > 0
           THEN /\ usage' = updatePaid(usage, existing.paid_scorings_remaining - 1)
                /\ paidCharged' = paidCharged + 1
           ELSE /\ usage' = updateFree(usage, existing.free_scorings_used + 1)
                /\ UNCHANGED paidCharged
        /\ ops' = [ops EXCEPT ![i].at = "done"]
        /\ UNCHANGED <<parseVars, aiVars, runVars, creditsAdded>>

NextCredits ==
    \/ CallAddPaidCredits
    \/ CallRecordScoringUsage
    \/ SelectExisting
    \/ WriteCredits
    \/ WriteUsage

SpecCredits == InitCredits /\ [][NextCredits]_vars

-----------------------------------------------------------------------------
(* Claims about the credits, under SpecCredits. *)

\* paid_scorings_remaining of the fingerprint, 0 while it has no row
Remaining == IF usage.present THEN usage.paid_scorings_remaining ELSE 0

\* C28: no purchased credit is lost: for one fingerprint, after any interleaving
\* of concurrent addPaidCredits calls and recordScoringUsage calls,
\* paid_scorings_remaining equals the sum of all credits added minus the number of
\* scorings charged to paid credits, and it is never negative.
C28_NoCreditLost ==
    /\ Remaining >= 0
    /\ (\A i \in 1..Len(ops) : ops[i].at = "done") =>
           Remaining = creditsAdded - paidCharged

-----------------------------------------------------------------------------
(* A scoring run: POST /api/score (src/unnamed/part_003) or the scorePetition   *)
(* job (src/unnamed/part_007), each calling runOfficerScoring, which calls      *)
(* callAIWithFallback and parseOfficerReport; and the store the run writes to.  *)
(* A text the run handles is modelled by its length.                            *)

\* CHECK (status IN (...)) of scoring_sessions and of uploaded_files
SessionStatuses == {"uploading", "processing", "scoring", "completed", "error"}
FileStatuses == {"pending", "processing", "completed", "error"}
DocumentTypes == {"full_petition", "rfe_response", "exhibit_packet", "contract_deal_memo"}

\* const MAX_CONTENT_LENGTH = 150000 (route), const MAX_LENGTH = 150000 (job)
MAX_CONTENT_LENGTH == 150000
MAX_LENGTH == 150000
\* the lengths of the two truncation notices and of the lines runOfficerScoring
\* puts around the RFE and the response
RouteNoticeLength == 90
JobNoticeLength == 45
RfeWrapperLength == 70
\* retries: 2 of scorePetition, maxRetries: number = 3 of downloadWithRetry
Retries == 2
DownloadMaxRetries == 3

\* fullDocumentContent after lines 289-295 of the route
truncateRoute(length) ==
    IF length > MAX_CONTENT_LENGTH THEN MAX_CONTENT_LENGTH + RouteNoticeLength ELSE length

\* what get-document-content returns (lines 232-239 of the job)
truncateJob(length) ==
    IF length > MAX_LENGTH THEN MAX_LENGTH + JobNoticeLength ELSE length

\* let fullContent of runOfficerScoring (lines 66-75)
fullContentLength(type, content, rfe) ==
    IF type = "rfe_response" /\ rfe > 0 THEN RfeWrapperLength + rfe + content ELSE content

\* if (failedCount > 0 && processedCount === 0), with any failure taken for all
allFailed_any(failed, processed) == failed > 0

\* if (failedCount > 0 && processedCount === 0)
allFailed(failed, processed) == failed > 0 /\ processed = 0

\* the statement after `await saveScoringResults(...)`, were its error caught and logged
afterSave_caught(saved) == "complete"

\* the statement after `await saveScoringResults(...)`: the completion write, or the
\* catch clause when saveScoringResults throws
afterSave(saved) == IF saved THEN "complete" ELSE "threw"

\* the store takes a status the CHECK constraint of the table allows
accepts(statuses, status) == status \in statuses

\* an error with a message
Error(message) == Err(0, message)
\* a throw out of a statement of the route or a step of the job
Thrown(step, error) == [status |-> "threw", step |-> step, error |-> error]
\* the response of the route, or the end of the job
Responded(status, error) == [status |-> status, step |-> "", error |-> error]

\* the variables of the request and the configuration, which no step assigns
requestVars == <<mode, dbConfigured, useBackground, inngestConfigured, documentType, rfeLength>>
\* the variables of the loop of extract-text-from-files
extractVars == <<queue, processedCount, failedCount, downloadAttempt>>
\* the store
storeVars == <<session, resultsStored, files, statusWrites>>
\* what a step of the route or the job leaves alone outside the run
outsideRun == <<parseVars, aiVars, creditVars>>

\* await updateScoringSession(sessionId, { status, progress, ... }), the store taking it
UpdateScoringSession(status, progress) ==
    /\ session' = [status |-> status, progress |-> progress]
    /\ statusWrites' = statusWrites \cup {[record |-> "session", status |-> status]}

\* await updateScoringSession(sessionId, { progress, progressMessage })
UpdateProgress(progress) ==
    /\ session' = [session EXCEPT !.progress = progress]
    /\ UNCHANGED statusWrites

\* await updateUploadedFile(file.id, { status, ... })
UpdateUploadedFile(id, status, needs) ==
    /\ files' = [files EXCEPT ![id] = [needs |-> needs, status |-> status]]
    /\ statusWrites' = statusWrites \cup {[record |-> "file", status |-> status]}

\* the files the job has to extract: no text of more than 100 characters, and a
\* storage path
RECURSIVE filesToProcess(_, _)
filesToProcess(rows, from) ==
    IF from > Len(rows) THEN <<>>
    ELSE (IF rows[from].needs THEN <<from>> ELSE <<>>) \o filesToProcess(rows, from + 1)

\* the rows of the session's files before the run: n files, of which the first k
\* have no text yet
FileRows(max) ==
    UNION {{[i \in 1..n |-> [needs |-> i <= k, status |-> "pending"]] : k \in 0..n} : n \in 0..max}

\* a request to the route or an event to the job: lengths of the document content,
\* lengths of the original RFE, document types
InitRunWith(contentLengths, rfeLengths, documentTypes) ==
    /\ dbConfigured \in BOOLEAN
    /\ report = ""
    /\ visaType \in (IF dbConfigured THEN {"O-1B"} ELSE {"O-1B", "H-1B"})
    /\ overallScore = Unset
    /\ scoreStep = Unset
    /\ overallRating = Unset
    /\ probabilities = Unset
    /\ criteriaScores = <<>>
    /\ evidenceQuality = Unset
    /\ rfePredictions = <<>>
    /\ lastIndex = 1
    /\ weaknesses = Unset
    /\ strengths = Unset
    /\ recommendations = Unset
    /\ parsed = <<>>
    /\ items = Unset
    /\ pc = "runOfficerScoring"
    /\ NoCredits
    /\ aiPc = "idle"
    /\ anthropicKey \in BOOLEAN
    /\ openaiKey \in BOOLEAN
    /\ maxRetries = DefaultMaxRetries
    /\ initialDelay = DefaultInitialDelay
    /\ attempt = 0
    /\ errors = <<>>
    /\ waits = <<>>
    /\ calls = [claude |-> 0, openai |-> 0]
    /\ thrown = NoError
    /\ aiResult = NoResult
    /\ mode \in {"route", "job"}
    /\ runPc = IF mode = "route" THEN "POST" ELSE "update-status-processing"
    /\ useBackground \in (IF mode = "route" THEN BOOLEAN ELSE {TRUE})
    /\ inngestConfigured \in (IF mode = "route" THEN BOOLEAN ELSE {TRUE})
    /\ documentType \in documentTypes
    /\ contentLength \in contentLengths
    /\ rfeLength \in (IF mode = "route" THEN rfeLengths ELSE {0})
    /\ promptLength = 0
    /\ session = NewSession
    /\ resultsStored = FALSE
    /\ files \in (IF mode = "job" /\ dbConfigured THEN FileRows(MaxFiles) ELSE {<<>>})
    /\ queue = <<>>
    /\ processedCount = 0
    /\ failedCount = 0
    /\ downloadAttempt = 0
    /\ inflight = {}
    /\ statusWrites = {}
    /\ stepAttempt = 0
    /\ response = NoResponse

(* The route. *)

\* lines 207-218: background processing is asked for and Inngest is configured;
\* the session is marked 'queued', which the store takes or rejects
UpdateStatusQueued ==
    /\ mode = "route"
    /\ runPc = "POST"
    /\ useBackground /\ inngestConfigured
    /\ IF dbConfigured
       THEN IF accepts(SessionStatuses, "queued")
            THEN /\ UpdateScoringSession("queued", 0)
                 /\ runPc' = "send"
            ELSE /\ statusWrites' = statusWrites \cup {[record |-> "session", status |-> "queued"]}
                 /\ runPc' = "catchInngestError"
                 /\ UNCHANGED session
       ELSE /\ runPc' = "send"
            /\ UNCHANGED <<session, statusWrites>>
    /\ UNCHANGED <<outsideRun, requestVars, extractVars, contentLength, promptLength,
                   resultsStored, files, inflight, stepAttempt, response>>

\* lines 221-237: await inngest.send(...) and the answer 'queued', or its rejection
InngestSend ==
    /\ runPc = "send"
    /\ \E sent \in BOOLEAN :
          IF sent
          THEN /\ response' = Responded("queued", NoError)
               /\ runPc' = "responded"
          ELSE /\ runPc' = "catchInngestError"
               /\ UNCHANGED response
    /\ UNCHANGED <<outsideRun, requestVars, extractVars, storeVars, contentLength, promptLength,
                   inflight, stepAttempt>>

\* lines 238-251: catch (inngestError), the session marked 'processing'
CatchInngestError ==
    /\ runPc = "catchInngestError"
    /\ IF dbConfigured
       THEN UpdateScoringSession("processing", 5)
       ELSE UNCHANGED <<session, statusWrites>>
    /\ runPc' = "synchronous"
    /\ UNCHANGED <<outsideRun, requestVars, extractVars, contentLength, promptLength,
                   resultsStored, files, inflight, stepAttempt, response>>

\* lines 255-295: the files are read, the session is marked 'scoring', an empty
\* content is answered with 400, and a long content is truncated
Synchronous ==
    /\ mode = "route"
    /\ \/ runPc = "synchronous"
       \/ runPc = "POST" /\ ~(useBackground /\ inngestConfigured)
    /\ IF dbConfigured
       THEN UpdateScoringSession("scoring", 15)
       ELSE UNCHANGED <<session, statusWrites>>
    /\ IF contentLength = 0
       THEN /\ response' = Responded("400", Error("No document content available for scoring"))
            /\ runPc' = "responded"
            /\ UNCHANGED contentLength
       ELSE /\ contentLength' = truncateRoute(contentLength)
            /\ runPc' = "run-officer-scoring"
            /\ UNCHANGED response
    /\ UNCHANGED <<outsideRun, requestVars, extractVars, promptLength, resultsStored, files,
                   inflight, stepAttempt>>

\* lines 363-376: catch (error), the answer 500 with the message of the error
CatchError ==
    /\ mode = "route"
    /\ runPc = "threw"
    /\ response' = Responded("500", response.error)
    /\ runPc' = "responded"
    /\ UNCHANGED <<outsideRun, requestVars, extractVars, storeVars, contentLength, promptLength,
                   inflight, stepAttempt>>

(* The job. *)

\* step update-status-processing
UpdateStatusProcessing ==
    /\ mode = "job"
    /\ runPc = "update-status-processing"
    /\ IF dbConfigured
       THEN UpdateScoringSession("processing", 5)
       ELSE UNCHANGED <<session, statusWrites>>
    /\ runPc' = "extract-text-from-files"
    /\ stepAttempt' = 0
    /\ UNCHANGED <<outsideRun, requestVars, extractVars, contentLength, promptLength,
                   resultsStored, files, inflight, response>>

\* step extract-text-from-files, lines 103-119: the files that need extraction
BeginExtraction ==
    /\ runPc = "extract-text-from-files"
    /\ IF ~dbConfigured
       THEN /\ response' = Thrown("extract-text-from-files", Error("Database not configured"))
            /\ runPc' = "threw"
            /\ UNCHANGED extractVars
       ELSE /\ queue' = filesToProcess(files, 1)
            /\ processedCount' = 0
            /\ failedCount' = 0
            /\ runPc' = "forFile"
            /\ UNCHANGED <<downloadAttempt, response>>
    /\ UNCHANGED <<outsideRun, requestVars, storeVars, contentLength, promptLength, inflight,
                   stepAttempt>>

\* lines 121-136: the progress of the file is written and its download begins
ReportFile ==
    /\ runPc = "forFile"
    /\ queue # <<>>
    /\ LET fileIndex == processedCount + failedCount
       IN  UpdateProgress(5 + ((fileIndex * 15) \div (fileIndex + Len(queue))))
    /\ downloadAttempt' = 1
    /\ runPc' = "download"
    /\ UNCHANGED <<outsideRun, requestVars, queue, processedCount, failedCount, contentLength,
                   promptLength, resultsStored, files, inflight, stepAttempt, response>>

\* downloadWithRetry: an attempt before the last fails, and after the delay the
\* next one is made
DownloadRetry ==
    /\ runPc = "download"
    /\ downloadAttempt < DownloadMaxRetries
    /\ downloadAttempt' = downloadAttempt + 1
    /\ UNCHANGED <<outsideRun, requestVars, storeVars, queue, processedCount, failedCount,
                   runPc, contentLength, promptLength, inflight, stepAttempt, response>>

\* downloadWithRetry: the last attempt fails; lines 138-149: the file is marked 'error'
DownloadGivesUp ==
    /\ runPc = "download"
    /\ downloadAttempt = DownloadMaxRetries
    /\ UpdateUploadedFile(Head(queue), "error", TRUE)
    /\ failedCount' = failedCount + 1
    /\ queue' = Tail(queue)
    /\ runPc' = "forFile"
    /\ UNCHANGED <<outsideRun, requestVars, processedCount, downloadAttempt, session,
                   resultsStored, contentLength, promptLength, inflight,
                   stepAttempt, response>>

\* downloadWithRetry: an attempt succeeds
DownloadResolves ==
    /\ runPc = "download"
    /\ runPc' = "extract"
    /\ UNCHANGED <<outsideRun, requestVars, storeVars, extractVars, contentLength,
                   promptLength, inflight, stepAttempt, response>>

\* lines 151-180: the text is extracted and stored, the file marked 'completed'
ExtractResolves ==
    /\ runPc = "extract"
    /\ UpdateUploadedFile(Head(queue), "completed", FALSE)
    /\ processedCount' = processedCount + 1
    /\ queue' = Tail(queue)
    /\ runPc' = "forFile"
    /\ UNCHANGED <<outsideRun, requestVars, failedCount, downloadAttempt, session,
                   resultsStored, contentLength, promptLength, inflight,
                   stepAttempt, response>>

\* lines 181-190: catch (extractError), the file marked 'error'
ExtractRejects ==
    /\ runPc = "extract"
    /\ UpdateUploadedFile(Head(queue), "error", TRUE)
    /\ failedCount' = failedCount + 1
    /\ queue' = Tail(queue)
    /\ runPc' = "forFile"
    /\ UNCHANGED <<outsideRun, requestVars, processedCount, downloadAttempt, session,
                   resultsStored, contentLength, promptLength, inflight,
                   stepAttempt, response>>

\* lines 193-209: the loop is over; when every file failed the session is marked
\* 'error' and the step throws
EndExtraction ==
    /\ runPc = "forFile"
    /\ queue = <<>>
    /\ IF allFailed(failedCount, processedCount)
       THEN /\ UpdateScoringSession("error", 15)
            /\ response' = Thrown("extract-text-from-files", Error("All file extractions failed"))
            /\ runPc' = "threw"
            /\ UNCHANGED stepAttempt
       ELSE /\ runPc' = "get-document-content"
            /\ stepAttempt' = 0
            /\ UNCHANGED <<session, statusWrites, response>>
    /\ UNCHANGED <<outsideRun, requestVars, extractVars, contentLength, promptLength,
                   resultsStored, files, inflight>>

\* step get-document-content: the texts of the files joined, and truncated when long
GetDocumentContent ==
    /\ runPc = "get-document-content"
    /\ IF ~dbConfigured
       THEN /\ response' = Thrown("get-document-content", Error("Database not configured"))
            /\ runPc' = "threw"
            /\ UNCHANGED <<contentLength, stepAttempt>>
       ELSE IF Len(files) = 0
       THEN /\ response' = Thrown("get-document-content", Error("No files found for this session"))
            /\ runPc' = "threw"
            /\ UNCHANGED <<contentLength, stepAttempt>>
       ELSE /\ contentLength' = truncateJob(contentLength)
            /\ runPc' = "update-status-scoring"
            /\ stepAttempt' = 0
            /\ UNCHANGED response
    /\ UNCHANGED <<outsideRun, requestVars, extractVars, storeVars, promptLength, inflight>>

\* step update-status-scoring
UpdateStatusScoring ==
    /\ runPc = "update-status-scoring"
    /\ IF dbConfigured
       THEN UpdateScoringSession("scoring", 20)
       ELSE UNCHANGED <<session, statusWrites>>
    /\ runPc' = "run-officer-scoring"
    /\ stepAttempt' = 0
    /\ UNCHANGED <<outsideRun, requestVars, extractVars, contentLength, promptLength,
                   resultsStored, files, inflight, response>>

\* Inngest runs a step that threw again, at most `retries` times
RetryStep ==
    /\ mode = "job"
    /\ runPc = "threw"
    /\ stepAttempt < Retries
    /\ stepAttempt' = stepAttempt + 1
    /\ runPc' = response.step
    /\ response' = NoResponse
    /\ UNCHANGED <<outsideRun, requestVars, extractVars, storeVars, contentLength, promptLength,
                   inflight>>

\* the step has thrown at its last attempt: the function run fails
FailJob ==
    /\ mode = "job"
    /\ runPc = "threw"
    /\ stepAttempt = Retries
    /\ response' = Responded("job failed", response.error)
    /\ runPc' = "responded"
    /\ UNCHANGED <<outsideRun, requestVars, extractVars, storeVars, contentLength, promptLength,
                   inflight, stepAttempt>>

(* runOfficerScoring, called by both. *)

\* the callback the route and the job pass as onProgress issues a write of the
\* progress when the database is configured, and nothing awaits it
issued(progress) == IF dbConfigured THEN progress ELSE {}

\* lines 61-96: onProgress 5, the content and the prompts are built, onProgress 20,
\* and callAIWithFallback is called
StartRunOfficerScoring ==
    /\ runPc = "run-officer-scoring"
    /\ inflight' = inflight \cup issued({5, 20})
    /\ promptLength' = fullContentLength(documentType, contentLength, rfeLength)
    /\ aiPc' = "callClaude"
    /\ attempt' = 0
    /\ errors' = <<>>
    /\ waits' = <<>>
    /\ calls' = [claude |-> 0, openai |-> 0]
    /\ thrown' = NoError
    /\ aiResult' = NoResult
    /\ runPc' = "callAIWithFallback"
    /\ UNCHANGED <<parseVars, creditVars, anthropicKey, openaiKey, maxRetries, initialDelay,
                   requestVars, extractVars, storeVars, contentLength, stepAttempt, response>>

\* lines 91-103: callAIWithFallback has returned { content, provider }; onProgress
\* 70, and parseOfficerReport is called with the content
CallParseOfficerReport ==
    /\ runPc = "callAIWithFallback"
    /\ aiPc = "returned"
    /\ inflight' = inflight \cup issued({70})
    /\ report' = aiResult.content
    /\ pc' = "extractScore"
    /\ overallScore' = Unset
    /\ scoreStep' = Unset
    /\ overallRating' = Unset
    /\ probabilities' = Unset
    /\ criteriaScores' = freshArray(criteriaScores)
    /\ evidenceQuality' = Unset
    /\ rfePredictions' = freshArray(rfePredictions)
    /\ lastIndex' = freshRegExp(lastIndex)
    /\ weaknesses' = Unset
    /\ strengths' = Unset
    /\ recommendations' = Unset
    /\ aiPc' = "idle"
    /\ attempt' = 0
    /\ errors' = <<>>
    /\ waits' = <<>>
    /\ calls' = [claude |-> 0, openai |-> 0]
    /\ thrown' = NoError
    /\ runPc' = "parseOfficerReport"
    /\ UNCHANGED <<visaType, parsed, items, creditVars, anthropicKey, openaiKey, maxRetries,
                   initialDelay, aiResult, requestVars, extractVars, storeVars, contentLength,
                   promptLength, stepAttempt, response>>

\* callAIWithFallback has thrown, and runOfficerScoring with it
CallAIThrew ==
    /\ runPc = "callAIWithFallback"
    /\ aiPc = "threw"
    /\ response' = Thrown("run-officer-scoring", aiResult.error)
    /\ runPc' = "threw"
    /\ aiPc' = "idle"
    /\ attempt' = 0
    /\ errors' = <<>>
    /\ waits' = <<>>
    /\ calls' = [claude |-> 0, openai |-> 0]
    /\ thrown' = NoError
    /\ UNCHANGED <<parseVars, creditVars, anthropicKey, openaiKey, maxRetries, initialDelay,
                   aiResult, requestVars, extractVars, storeVars, contentLength, promptLength,
                   inflight, stepAttempt>>

\* lines 105-110: parseOfficerReport has returned; onProgress 95, and the results
\* are returned to the route or the job
ReturnResults ==
    /\ runPc = "parseOfficerReport"
    /\ pc = "returned"
    /\ inflight' = inflight \cup issued({95})
    /\ runPc' = "save-results"
    /\ stepAttempt' = 0
    /\ UNCHANGED <<outsideRun, requestVars, extractVars, storeVars, contentLength, promptLength,
                   response>>

\* parseOfficerReport has thrown, and runOfficerScoring with it
ParseThrew ==
    /\ runPc = "parseOfficerReport"
    /\ pc = "threw"
    /\ response' = Thrown("run-officer-scoring", Error("criteria is not iterable"))
    /\ runPc' = "threw"
    /\ UNCHANGED <<outsideRun, requestVars, extractVars, storeVars, contentLength, promptLength,
                   inflight, stepAttempt>>

\* a write issued by onProgress lands at the store
LandProgress ==
    /\ \E progress \in inflight :
          /\ inflight' = inflight \ {progress}
          /\ UpdateProgress(progress)
    /\ UNCHANGED <<outsideRun, requestVars, extractVars, runPc, contentLength, promptLength,
                   resultsStored, files, stepAttempt, response>>

(* Saving, in the route (lines 318-342) and in the step save-results. *)

\* await saveScoringResults(...): the row is inserted, or the store fails or
\* rejects it, session_id being UNIQUE
SaveScoringResults ==
    /\ runPc = "save-results"
    /\ IF ~dbConfigured
       THEN /\ runPc' = "respond"
            /\ UNCHANGED <<resultsStored, response>>
       ELSE \E stored \in BOOLEAN :
              LET saved == stored /\ ~resultsStored
              IN  /\ resultsStored' = (resultsStored \/ saved)
                  /\ runPc' = afterSave(saved)
                  /\ response' = IF afterSave(saved) = "threw"
                                 THEN Thrown("save-results", Error("insert failed"))
                                 ELSE response
    /\ UNCHANGED <<outsideRun, requestVars, extractVars, session, files,
                   statusWrites, contentLength, promptLength, inflight, stepAttempt>>

\* await updateScoringSession(sessionId, { status: 'completed', progress: 100, ... })
UpdateStatusCompleted ==
    /\ runPc = "complete"
    /\ \E written \in BOOLEAN :
          IF written
          THEN /\ UpdateScoringSession("completed", 100)
               /\ runPc' = "respond"
               /\ UNCHANGED response
          ELSE /\ statusWrites' = statusWrites \cup {[record |-> "session", status |-> "completed"]}
               /\ response' = Thrown("save-results", Error("update failed"))
               /\ runPc' = "threw"
               /\ UNCHANGED session
    /\ UNCHANGED <<outsideRun, requestVars, extractVars, resultsStored, files, contentLength,
                   promptLength, inflight, stepAttempt>>

\* return NextResponse.json({ success: true, ... }) of the route, return { success:
\* true, ... } of the job
Respond ==
    /\ runPc = "respond"
    /\ response' = Responded(IF mode = "route" THEN "200" ELSE "job succeeded", NoError)
    /\ runPc' = "responded"
    /\ UNCHANGED <<outsideRun, requestVars, extractVars, storeVars, contentLength, promptLength,
                   inflight, stepAttempt>>

\* the route and the job up to the call of callAIWithFallback
NextPrompt ==
    \/ UpdateStatusQueued
    \/ InngestSend
    \/ CatchInngestError
    \/ Synchronous
    \/ UpdateStatusProcessing
    \/ BeginExtraction
    \/ ReportFile
    \/ DownloadRetry
    \/ DownloadGivesUp
    \/ DownloadResolves
    \/ ExtractResolves
    \/ ExtractRejects
    \/ EndExtraction
    \/ GetDocumentContent
    \/ UpdateStatusScoring
    \/ RetryStep
    \/ FailJob
    \/ StartRunOfficerScoring
    \/ LandProgress

\* the whole run; runOfficerScoring leaves maxRetries at its default, so the retry
\* loop of callClaude is never left at its end
NextRun ==
    \/ NextPrompt
    \/ GetAnthropicClientThrows
    \/ EnterRetryWithBackoff
    \/ FnResolves
    \/ FnRejects
    \/ ThrowNonRetryable
    \/ ThrowNotRetryableOrLast
    \/ Backoff
    \/ ThrowClaudeError
    \/ CallOpenAIResolves
    \/ CallOpenAIRejects
    \/ CallParseOfficerReport
    \/ CallAIThrew
    \/ NextLists
    \/ Return
    \/ ThrowNotIterable
    \/ ReturnResults
    \/ ParseThrew
    \/ CatchError
    \/ SaveScoringResults
    \/ UpdateStatusCompleted
    \/ Respond

\* the lengths around the limit, with and without an original RFE
ContentLengths == {0, 1200, MAX_CONTENT_LENGTH, MAX_CONTENT_LENGTH + 1, 400000}
InitPrompt == InitRunWith(ContentLengths, {0, 200000}, DocumentTypes)
SpecPrompt == InitPrompt /\ [][NextPrompt]_vars

\* a short full petition
InitRun == InitRunWith({1200}, {0}, {"full_petition"})
SpecRun == InitRun /\ [][NextRun]_vars

-----------------------------------------------------------------------------
(* Claims about the scoring run. *)

\* callAIWithFallback has returned an answer without text
NoTextAnswer == aiResult.outcome = "returned" /\ aiResult.content = ""

\* C21: when the provider that answers returns no text content, runOfficerScoring
\* fails: no scoring record is stored and the run does not end in success
C21_NoTextIsAnError ==
    NoTextAnswer => (~resultsStored /\ response.status \notin {"200", "job succeeded"})

\* the truncation notice of the route or of the job
noticeLength == IF mode = "route" THEN RouteNoticeLength ELSE JobNoticeLength

\* C22: in every run and for every document type, the document content embedded in
\* the prompt has at most 150000 characters plus the truncation notice
C22_PromptContentBounded == promptLength <= MAX_CONTENT_LENGTH + noticeLength

\* the files the job has extracted, and the files whose download or extraction failed
Extracted == {i \in DOMAIN files : files[i].status = "completed"}
Failed == {i \in DOMAIN files : files[i].status = "error"}
\* the step extract-text-from-files has thrown because every extraction failed
AllFailedThrown == runPc = "threw" /\ response.error = Error("All file extractions failed")

\* C23: when every file that needs extraction fails, the session is marked 'error'
\* and the execution reaches neither the scoring nor the storing of results; when
\* at least one file was extracted the failures do not stop the run
C23_AllFailedStopsTheRun ==
    /\ AllFailedThrown =>
          /\ session.status = "error"
          /\ Extracted = {}
          /\ Failed # {}
          /\ promptLength = 0
          /\ ~resultsStored
    /\ (mode = "job" /\ (promptLength > 0 \/ resultsStored)) => (Failed = {} \/ Extracted # {})

\* an execution in which every file failed, then one in which a file failed and
\* another was extracted, which went on to the scoring
C23_Witness ==
    /\ mode = "job"
    /\ [record |-> "session", status |-> "error"] \in statusWrites
    /\ Failed # {}
    /\ Extracted # {}
    /\ promptLength > 0

\* C24: a session marked 'completed' has its results stored, and a failure of
\* saveScoringResults leaves the session not 'completed'
C24_CompletedOnlyAfterStored ==
    /\ session.status = "completed" => resultsStored
    /\ (runPc = "threw" /\ response.error = Error("insert failed")) => session.status # "completed"

\* the job has completed the session at the attempt after one that failed to save
C24_Witness ==
    /\ mode = "job"
    /\ stepAttempt > 0
    /\ session.status = "completed"
    /\ resultsStored

\* the run has ended in success and every write it issued has landed
RunSucceeded ==
    /\ dbConfigured
    /\ runPc = "responded"
    /\ response.status \in {"200", "job succeeded"}
    /\ inflight = {}

\* C25: after a successful run the session ends 'completed' with progress 100,
\* however the writes of the progress callback interleave with the completion write
C25_EndsCompletedAtHundred ==
    RunSucceeded => (session.status = "completed" /\ session.progress = 100)

\* C26: the progress values written to the session during a run never decrease
C26_ProgressNeverDecreases == [][session'.progress >= session.progress]_vars

\* C27: every status written to a session or to a file is one its table allows
C27_StatusWritesInDomain ==
    \A write \in statusWrites :
        write.status \in (IF write.record = "session" THEN SessionStatuses ELSE FileStatuses)

====
